---- MODULE Spec2Model ----
(***************************************************************************)
(* A model of the openclaw-honcho plugin: three-layer identity loading     *)
(* (identity.ts), the inbound safety filter, outbound scanning and         *)
(* redaction (scanning.ts) and the plugin hooks (index.ts).                *)
(*                                                                         *)
(* Strings are sequences of one-character strings, so that splitting,      *)
(* trimming, matching and replacing are computed character by character.   *)
(* A nullable value is a sequence of length 0 (null/undefined) or 1.       *)
(***************************************************************************)
EXTENDS Integers, Sequences, FiniteSets, TLC

VARIABLES
  \* ---- stripInternalContext driver (identity.ts)
  fText,          \* the text handed to stripInternalContext
  fPatterns,      \* the caller's RegExp objects (source, flags, lastIndex)
  fResult,        \* the value returned (nullable string)
  fPc,            \* "ready" | "returned"
  fGiven,         \* the RegExp objects as the caller first handed them over
  fEarlier        \* the earlier calls with these objects: (text, result)

filterVars == <<fText, fPatterns, fResult, fPc, fGiven, fEarlier>>

VARIABLES
  \* ---- one loadIdentityContext call (identity.ts)
  lConfig,        \* the IdentityConfig of the call
  lCard,          \* the getCard() promise
  lChat,          \* the chat(query) promises, in alignmentQueries order
  lRepr,          \* the representation() promise
  lOrder,         \* the query indices in the order their chat calls settled
  lTimer,         \* the setTimeout timer: "unset" | "armed" | "fired"
  lWinner,        \* which side of Promise.race settled first
  lAtReturn,      \* the promises as they stood when the race settled (nullable)
  lResult,        \* the IdentityContext the call resolved with (nullable)
  lPc             \* "start" | "racing" | "returned" | "threw"

loadVars ==
  <<lConfig, lCard, lChat, lRepr, lOrder, lTimer, lWinner, lAtReturn, lResult, lPc>>

VARIABLES
  \* ---- scanOutbound / redactOutbound driver (scanning.ts)
  sText,          \* the outbound text
  sPatterns,      \* the ScanPattern list (name, pattern, severity)
  sScan,          \* the ScanResult of scanOutbound (nullable)
  sSegments,      \* redactOutbound's finalSegments
  sPieces,        \* redactOutbound's mapped segments, before the join
  sRedacted       \* the string redactOutbound returned (nullable)

scanVars == <<sText, sPatterns, sScan, sSegments, sPieces, sRedacted>>

VARIABLES
  \* ---- the plugin hooks (index.ts)
  useThreeLayer,      \* the configuration selects the three-layer path
  hNow,               \* Date.now(), in ms since the plugin was registered
  initialized,
  initFailed,
  initPromise,        \* "null" | "pending" | "resolved"
  currentSessionKey,
  identityCache,      \* nullable {result, expiresAt}
  hCall               \* the before_agent_start invocations and their locals

hookVars ==
  <<useThreeLayer, hNow, initialized, initFailed, initPromise,
    currentSessionKey, identityCache, hCall>>

VARIABLES
  \* ---- the message_sending hook (index.ts)
  enableOutboundScanning,  \* cfg.enableOutboundScanning
  mContent,                \* event.content of the outbound message
  mReturn,                 \* "pending" | "undefined" | "cancel"
  mLog                     \* the logger.warn calls of the handler

sendVars == <<enableOutboundScanning, mContent, mReturn, mLog>>

VARIABLES
  \* ---- the agent_end hook (index.ts) and the Honcho session it writes to
  agentEndLock,            \* nullable: the invocation whose promise it holds
  lockResolved,            \* the invocations whose lock promise is resolved
  dreamAfterConversations, \* cfg.dreamAfterConversations (0: not set)
  sessionMetadata,         \* per session key: the stored metadata (nullable)
  metadataAtStart,         \* per session key: the metadata found at plugin start
  metadataWrites,          \* per session key: the setMetadata calls committed
  dreamsScheduled,         \* per session key: the scheduleDream calls accepted
  eCall                    \* the agent_end invocations and their locals

endVars ==
  <<agentEndLock, lockResolved, dreamAfterConversations, sessionMetadata,
    metadataAtStart, metadataWrites, dreamsScheduled, eCall>>

VARIABLES
  \* ---- ensureInitialized and its callers (index.ts)
  iCall,          \* the ensureInitialized calls and what became of them
  initAttempts,   \* the initialization attempts: their step and outcome
  honchoCalls     \* how often setMetadata and peer were called on the client

initVars == <<iCall, initAttempts, honchoCalls>>

VARIABLES
  \* ---- agent runs, the tools they call and what reaches the agent (index.ts)
  enableSafetyFilter,  \* cfg.enableSafetyFilter
  tRun,                \* the agent runs: context key, position, tool locals
  tDelivered           \* the memory texts of the latest prompt or tool result

toolVars == <<enableSafetyFilter, tRun, tDelivered>>

vars ==
  <<filterVars, loadVars, scanVars, hookVars, sendVars, endVars, initVars,
    toolVars>>

------------------------------------------------------------------------------
\* Bounds of the model

\* longest text handed to stripInternalContext
MaxTextLen == 4

\* most alignment queries in an IdentityConfig
MaxQueries == 2

\* most repeated stripInternalContext calls with the same RegExp objects
MaxRepeats == 2

\* most tokens (a fence, a backtick or a letter) in an outbound text
MaxTokens == 6

\* most content blocks in an outbound message
MaxBlocks == 2

\* most before_agent_start invocations
MaxCalls == 2

\* how far the clock runs, in cache lifetimes
MaxTtlSpans == 1

------------------------------------------------------------------------------
\* Nullable values and strings

None == <<>>

Some(x) == <<x>>

IsNone(o) == Len(o) = 0

Get(o) == o[1]

\* The parts of the plugin are exercised one at a time; these are the values
\* the variables of a part keep while another part runs.
FilterIdle ==
  /\ fText = <<>>
  /\ fPatterns = <<>>
  /\ fResult = None
  /\ fPc = "ready"
  /\ fGiven = <<>>
  /\ fEarlier = <<>>

\* a promise: "unissued" | "pending" | "fulfilled" (with its value) | "rejected"
Unissued == [st |-> "unissued", v |-> None]

Pending == [st |-> "pending", v |-> None]

Fulfilled(v) == [st |-> "fulfilled", v |-> v]

Rejected == [st |-> "rejected", v |-> None]

IsSettled(p) == p.st \in {"fulfilled", "rejected"}

\* IdentityConfig = {} : every option undefined
EmptyConfig ==
  [alignmentQueries |-> None, safetyPatterns |-> None, roleName |-> None,
   values |-> None, principles |-> None]

LoadIdle ==
  /\ lConfig = EmptyConfig
  /\ lCard = Unissued
  /\ lChat = <<>>
  /\ lRepr = Unissued
  /\ lOrder = <<>>
  /\ lTimer = "unset"
  /\ lWinner = "none"
  /\ lAtReturn = None
  /\ lResult = None
  /\ lPc = "start"

ScanIdle ==
  /\ sText = <<>>
  /\ sPatterns = <<>>
  /\ sScan = None
  /\ sSegments = <<>>
  /\ sPieces = <<>>
  /\ sRedacted = None

HookIdle ==
  /\ useThreeLayer = FALSE
  /\ hNow = 0
  /\ initialized = FALSE
  /\ initFailed = FALSE
  /\ initPromise = "null"
  /\ currentSessionKey = "default"
  /\ identityCache = None
  /\ hCall = <<>>

InitIdle ==
  /\ iCall = <<>>
  /\ initAttempts = <<>>
  /\ honchoCalls = <<>>

ToolIdle ==
  /\ enableSafetyFilter = FALSE
  /\ tRun = <<>>
  /\ tDelivered = <<>>

NoContent == [kind |-> "none", text |-> <<>>, blocks |-> <<>>]

SendIdle ==
  /\ enableOutboundScanning = FALSE
  /\ mContent = NoContent
  /\ mReturn = "pending"
  /\ mLog = <<>>

EndIdle ==
  /\ agentEndLock = None
  /\ lockResolved = {}
  /\ dreamAfterConversations = 0
  /\ sessionMetadata = <<>>
  /\ metadataAtStart = <<>>
  /\ metadataWrites = <<>>
  /\ dreamsScheduled = <<>>
  /\ eCall = <<>>

Min(S) == CHOOSE x \in S : \A y \in S : x <= y

\* all strings over alphabet A of length at most n
StringsUpTo(A, n) == UNION {[1..k -> A] : k \in 0..n}

\* String.prototype.trim strips these
IsSpace(c) == c \in {" ", "\n", "\t", "\r"}

RECURSIVE TrimStart(_)
TrimStart(s) ==
  IF s = <<>> THEN s
  ELSE IF IsSpace(Head(s)) THEN TrimStart(Tail(s)) ELSE s

RECURSIVE TrimEnd(_)
TrimEnd(s) ==
  IF s = <<>> THEN s
  ELSE IF IsSpace(s[Len(s)]) THEN TrimEnd(SubSeq(s, 1, Len(s) - 1)) ELSE s

Trim(s) == TrimEnd(TrimStart(s))

\* representation.split("\n"): always at least one line
RECURSIVE SplitLines(_)
SplitLines(s) ==
  IF \A i \in 1..Len(s) : s[i] # "\n" THEN <<s>>
  ELSE LET i == Min({j \in 1..Len(s) : s[j] = "\n"})
       IN  <<SubSeq(s, 1, i - 1)>> \o SplitLines(SubSeq(s, i + 1, Len(s)))

\* filtered.join("\n")
RECURSIVE JoinLines(_)
JoinLines(ls) ==
  IF ls = <<>> THEN <<>>
  ELSE IF Len(ls) = 1 THEN ls[1]
  ELSE ls[1] \o <<"\n">> \o JoinLines(Tail(ls))

------------------------------------------------------------------------------
\* RegExp objects: a literal source, a set of flags and the mutable lastIndex

RegExp(source, flags) == [source |-> source, flags |-> flags, lastIndex |-> 0]

\* case folding applied by the ignoreCase flag
Lower(c) ==
  CASE c = "S" -> "s" [] c = "K" -> "k" [] c = "W" -> "w" [] OTHER -> c

CharEq(a, b, flags) == IF "i" \in flags THEN Lower(a) = Lower(b) ELSE a = b

\* the pattern matches s at the 0-based index i
MatchAt(s, i, source, flags) ==
  /\ i + Len(source) <= Len(s)
  /\ \A k \in 1..Len(source) : CharEq(s[i + k], source[k], flags)

\* RegExp.prototype.exec on s: the search starts at lastIndex for a global or
\* sticky pattern (and matches only there for a sticky one); lastIndex is
\* advanced past a match and set to 0 on a failure. index is 0-based, -1 for
\* no match.
RegExpExec(re, s) ==
  LET stateful == ("g" \in re.flags) \/ ("y" \in re.flags)
      start == IF stateful THEN re.lastIndex ELSE 0
      cands == IF start > Len(s) THEN {}
               ELSE IF "y" \in re.flags
                 THEN {i \in {start} : MatchAt(s, i, re.source, re.flags)}
                 ELSE {i \in start..Len(s) : MatchAt(s, i, re.source, re.flags)}
  IN  IF cands = {}
        THEN [index |-> -1,
              re |-> IF stateful THEN [re EXCEPT !.lastIndex = 0] ELSE re]
        ELSE [index |-> Min(cands),
              re |-> IF stateful
                       THEN [re EXCEPT !.lastIndex = Min(cands) + Len(re.source)]
                       ELSE re]

\* pattern.test(line)
RegExpTest(re, s) ==
  LET e == RegExpExec(re, s) IN [matched |-> e.index >= 0, re |-> e.re]

\* patterns.some((pattern) => pattern.test(line)): stops at the first hit
RECURSIVE PatternsSome(_, _, _)
PatternsSome(patterns, k, line) ==
  IF k > Len(patterns) THEN [hit |-> FALSE, patterns |-> patterns]
  ELSE LET t == RegExpTest(patterns[k], line)
           ps == [patterns EXCEPT ![k] = t.re]
       IN  IF t.matched THEN [hit |-> TRUE, patterns |-> ps]
           ELSE PatternsSome(ps, k + 1, line)

\* lines.filter((line) => !patterns.some(...)), over the same RegExp objects
RECURSIVE FilterLines(_, _, _)
FilterLines(lines, k, patterns) ==
  IF k > Len(lines) THEN [kept |-> <<>>, patterns |-> patterns]
  ELSE LET t == PatternsSome(patterns, 1, lines[k])
           rest == FilterLines(lines, k + 1, t.patterns)
       IN  [kept |-> IF t.hit THEN rest.kept ELSE <<lines[k]>> \o rest.kept,
            patterns |-> rest.patterns]

\* for (const p of patterns) p.lastIndex = 0
ResetLastIndex(patterns) ==
  [k \in 1..Len(patterns) |-> [patterns[k] EXCEPT !.lastIndex = 0]]

\* result || null
\* (a variant: the empty string is returned as it is)
OrNull_KeepEmpty(s) == Some(s)

\* result || null
OrNull(s) == IF s = <<>> THEN None ELSE Some(s)

\* (a variant without the early return for an empty pattern list)
stripInternalContext_NoEmptyCheck(representation, patterns) ==
  LET f == FilterLines(SplitLines(representation), 1, patterns)
  IN  [value |-> OrNull(Trim(JoinLines(f.kept))),
       patterns |-> ResetLastIndex(f.patterns)]

\* stripInternalContext(representation, patterns): the value returned and the
\* state the RegExp objects are left in
stripInternalContext(representation, patterns) ==
  IF Len(patterns) = 0
    THEN [value |-> Some(representation), patterns |-> patterns]
    ELSE LET f == FilterLines(SplitLines(representation), 1, patterns)
         IN  [value |-> OrNull(Trim(JoinLines(f.kept))),
              patterns |-> ResetLastIndex(f.patterns)]

------------------------------------------------------------------------------
\* Driver of stripInternalContext: a caller holding a text and RegExp objects

FilterAlphabet == {"s", "S", "x", " ", "\n"}

FilterTexts == StringsUpTo(FilterAlphabet, MaxTextLen)

\* the pattern lists a caller passes: plain, global, sticky, ignoreCase
FilterPatternLists ==
  { <<>>,
    <<RegExp(<<"s">>, {})>>,
    <<RegExp(<<"s">>, {"g"})>>,
    <<RegExp(<<"s">>, {"y"})>>,
    <<RegExp(<<"s">>, {"g", "i"})>>,
    <<RegExp(<<"x">>, {}), RegExp(<<"s">>, {"g"})>> }

InitFilter ==
  /\ fText \in FilterTexts
  /\ fPatterns \in FilterPatternLists
  /\ fResult = None
  /\ fPc = "ready"
  /\ fGiven = fPatterns
  /\ fEarlier = <<>>
  /\ LoadIdle
  /\ ScanIdle
  /\ HookIdle
  /\ SendIdle
  /\ EndIdle
  /\ InitIdle
  /\ ToolIdle

FilterCall ==
  /\ fPc = "ready"
  /\ LET r == stripInternalContext(fText, fPatterns)
     IN  /\ fResult' = r.value
         /\ fPatterns' = r.patterns
  /\ fPc' = "returned"
  /\ UNCHANGED <<fText, fGiven, fEarlier, loadVars, scanVars, hookVars, sendVars, endVars, initVars, toolVars>>

NextFilter == FilterCall

SpecFilter == InitFilter /\ [][NextFilter]_vars

\* A caller that keeps its RegExp objects and calls again. The objects may
\* have been used before (pattern.test elsewhere), so a global or sticky one
\* may arrive with a lastIndex other than 0.
CarriedLastIndex(patterns) ==
  {[k \in 1..Len(patterns) |-> [patterns[k] EXCEPT !.lastIndex = li[k]]] :
     li \in [1..Len(patterns) -> 0..1]}

FilterOtherTexts == {<<"s">>, <<"x", "\n", "s">>}

InitFilterRepeat ==
  /\ fText \in FilterTexts
  /\ fGiven \in UNION {CarriedLastIndex(ps) : ps \in FilterPatternLists}
  /\ fPatterns = fGiven
  /\ fResult = None
  /\ fPc = "ready"
  /\ fEarlier = <<>>
  /\ LoadIdle
  /\ ScanIdle
  /\ HookIdle
  /\ SendIdle
  /\ EndIdle
  /\ InitIdle
  /\ ToolIdle

\* a further call with the same objects, on the same text or another one
FilterRecall ==
  \E text \in {fText} \cup FilterOtherTexts :
    /\ fPc = "returned"
    /\ Len(fEarlier) < MaxRepeats
    /\ LET r == stripInternalContext(text, fPatterns)
       IN  /\ fEarlier' = Append(fEarlier, [text |-> text, result |-> r.value])
           /\ fPatterns' = r.patterns
    /\ UNCHANGED <<fText, fResult, fPc, fGiven, loadVars, scanVars, hookVars, sendVars, endVars, initVars, toolVars>>

NextFilterRepeat == FilterCall \/ FilterRecall

SpecFilterRepeat == InitFilterRepeat /\ [][NextFilterRepeat]_vars

\* C11: stripInternalContext is stateless for its caller: every call with
\* the same text and the same RegExp objects returns what the first call
\* returned, whatever lastIndex the objects carried and whatever calls were
\* made with them in between.
C11_SameResultOnEveryCall ==
  fPc = "returned" =>
    \A k \in 1..Len(fEarlier) :
      fEarlier[k].text = fText => fEarlier[k].result = fResult

\* the pattern matches the line when the search starts at the start of the
\* line (a sticky pattern matches only at the start)
MatchesFromStart(re, line) ==
  \E i \in (IF "y" \in re.flags THEN {0} ELSE 0..Len(line)) :
    MatchAt(line, i, re.source, re.flags)

\* the lines of text that no pattern matches, joined and trimmed
UnmatchedLines(text, patterns) ==
  OrNull(Trim(JoinLines(SelectSeq(SplitLines(text),
    LAMBDA line : \A k \in 1..Len(patterns) : ~MatchesFromStart(patterns[k], line)))))

\* C4: for every non-empty pattern list (global and sticky patterns included)
\* and every text, stripInternalContext keeps exactly the lines that no
\* pattern matches from the start of the line, up to the final trim.
C4_KeepsExactlyUnmatchedLines ==
  (fPc = "returned" /\ Len(fPatterns) > 0)
    => fResult = UnmatchedLines(fText, fPatterns)

------------------------------------------------------------------------------
\* formatSystemPrompt (identity.ts). The prompt is kept as the sequence of the
\* parts pushed, which the code joins with "\n"; a part is a fixed line or a
\* line built from an input.

Line(text) == [kind |-> "line", s |-> <<text>>]

\* `You are operating as the ${roleName}.`
RoleLine(roleName) == [kind |-> "role", s |-> <<roleName>>]

\* peerCard.map((f) => `• ${f}`).join("\n")
Bullets(facts) == [kind |-> "bullets", s |-> facts]

\* `- ${p}`
Principle(p) == [kind |-> "principle", s |-> <<p>>]

Verbatim(kind, s) == [kind |-> kind, s |-> s]

\* a destructuring default: used when the option is undefined
OrDefault(o, d) == IF IsNone(o) THEN d ELSE Get(o)

RECURSIVE UnderstandingParts(_)
UnderstandingParts(responses) ==
  IF responses = <<>> THEN <<>>
  ELSE <<Verbatim("answer", <<Head(responses)>>), Line("")>>
         \o UnderstandingParts(Tail(responses))

\* (a variant that emits the Values section before Recent Context)
formatSystemPrompt_ValuesFirst(peerCard, alignmentResponses, representation, config) ==
  LET roleName == OrDefault(config.roleName, "agent")
      principles == OrDefault(config.principles, <<>>)
  IN  <<RoleLine(roleName), Line("")>>
      \o (IF ~IsNone(peerCard) /\ Len(Get(peerCard)) > 0
            THEN <<Line("## Identity"), Bullets(Get(peerCard)), Line("")>>
            ELSE <<>>)
      \o (IF Len(alignmentResponses) > 0
            THEN <<Line("## Understanding")>> \o UnderstandingParts(alignmentResponses)
            ELSE <<>>)
      \o (IF ~IsNone(config.values) /\ Get(config.values) # ""
            THEN <<Line("## Values"), Verbatim("values", <<Get(config.values)>>), Line("")>>
            ELSE <<>>)
      \o (IF ~IsNone(representation) /\ Get(representation) # <<>>
            THEN <<Line("## Recent Context"),
                   Verbatim("representation", Get(representation)), Line("")>>
            ELSE <<>>)
      \o (IF Len(principles) > 0
            THEN <<Line("## Operating Principles")>>
                   \o [k \in 1..Len(principles) |-> Principle(principles[k])]
            ELSE <<>>)

formatSystemPrompt(peerCard, alignmentResponses, representation, config) ==
  LET roleName == OrDefault(config.roleName, "agent")
      principles == OrDefault(config.principles, <<>>)
  IN  <<RoleLine(roleName), Line("")>>
      \o (IF ~IsNone(peerCard) /\ Len(Get(peerCard)) > 0
            THEN <<Line("## Identity"), Bullets(Get(peerCard)), Line("")>>
            ELSE <<>>)
      \o (IF Len(alignmentResponses) > 0
            THEN <<Line("## Understanding")>> \o UnderstandingParts(alignmentResponses)
            ELSE <<>>)
      \o (IF ~IsNone(representation) /\ Get(representation) # <<>>
            THEN <<Line("## Recent Context"),
                   Verbatim("representation", Get(representation)), Line("")>>
            ELSE <<>>)
      \o (IF ~IsNone(config.values) /\ Get(config.values) # ""
            THEN <<Line("## Values"), Verbatim("values", <<Get(config.values)>>), Line("")>>
            ELSE <<>>)
      \o (IF Len(principles) > 0
            THEN <<Line("## Operating Principles")>>
                   \o [k \in 1..Len(principles) |-> Principle(principles[k])]
            ELSE <<>>)

------------------------------------------------------------------------------
\* loadLayers and loadIdentityContext (identity.ts)

\* for (const r of settled) if (r.status === "fulfilled" && r.value) push(r.value)
RECURSIVE KeptResponses(_)
KeptResponses(settled) ==
  IF settled = <<>> THEN <<>>
  ELSE LET r == Head(settled)
       IN  (IF r.st = "fulfilled" /\ ~IsNone(r.v) /\ Get(r.v) # ""
              THEN <<Get(r.v)>> ELSE <<>>)
           \o KeptResponses(Tail(settled))

\* (a variant: the timeout promise resolves with what has been loaded so far)
TimeoutDefault_LoadedSoFar ==
  [status |-> "fulfilled",
   peerCard |-> IF lCard.st = "fulfilled" THEN lCard.v ELSE None,
   alignmentResponses |-> KeptResponses(lChat),
   representation |-> IF lRepr.st = "fulfilled" THEN lRepr.v ELSE None]

\* the value the timeout promise resolves with
TimeoutDefault ==
  [status |-> "fulfilled", peerCard |-> None, alignmentResponses |-> <<>>,
   representation |-> None]

\* (a variant: Promise.all over the three layers, which rejects when one does)
loadLayers_PromiseAll(card, chats, repr) ==
  [status |-> IF card.st = "rejected" \/ repr.st = "rejected"
                THEN "rejected" ELSE "fulfilled",
   peerCard |-> card.v,
   alignmentResponses |-> KeptResponses(chats),
   representation |-> repr.v]

\* (a variant: Promise.all over the chat calls, so that one rejected query
\* loses the answers of the others)
loadLayers_ChatsAll(card, chats, repr) ==
  [status |-> "fulfilled",
   peerCard |-> IF card.st = "fulfilled" THEN card.v ELSE None,
   alignmentResponses |->
     IF \E k \in 1..Len(chats) : chats[k].st = "rejected"
       THEN <<>> ELSE KeptResponses(chats),
   representation |-> IF repr.st = "fulfilled" THEN repr.v ELSE None]

\* loadLayers once Promise.allSettled has settled: never rejects, whatever the
\* three layers did
loadLayers(card, chats, repr) ==
  [status |-> "fulfilled",
   peerCard |-> IF card.st = "fulfilled" THEN card.v ELSE None,
   alignmentResponses |-> KeptResponses(chats),
   representation |-> IF repr.st = "fulfilled" THEN repr.v ELSE None]

\* loadIdentityContext after the race: the safety filter on Layer 3 and the
\* prompt
IdentityContext(layers, config) ==
  LET representation ==
        IF /\ ~IsNone(layers.representation)
           /\ Get(layers.representation) # <<>>
           /\ ~IsNone(config.safetyPatterns)
          THEN stripInternalContext(Get(layers.representation),
                                    Get(config.safetyPatterns)).value
          ELSE layers.representation
  IN  [peerCard |-> layers.peerCard,
       alignmentResponses |-> layers.alignmentResponses,
       representation |-> representation,
       systemPrompt |-> formatSystemPrompt(layers.peerCard,
                          layers.alignmentResponses, representation, config)]

\* what the memory service can answer
AllQueries == <<"q1", "q2", "q3", "q4">>

AnswerTo(q) ==
  CASE q = "q1" -> "a1" [] q = "q2" -> "a2" [] q = "q3" -> "a3" [] OTHER -> "a4"

CardOutcomes ==
  {Rejected, Fulfilled(None), Fulfilled(Some(<<>>)), Fulfilled(Some(<<"fact 1">>))}

ChatOutcomes(q) ==
  {Rejected, Fulfilled(None), Fulfilled(Some("")), Fulfilled(Some(AnswerTo(q)))}

ReprOutcomes ==
  {Rejected, Fulfilled(None), Fulfilled(Some(<<>>)),
   Fulfilled(Some(<<"s">>)), Fulfilled(Some(<<"x", "\n", "s">>)),
   Fulfilled(Some(<<" ", "\n", "s">>))}

\* the configurations of a call. maxConclusions, searchTopK and
\* representationQuery are only passed on to the service; timeoutMs is the
\* delay of the timer, which here may fire at any moment after it is armed.
LoadConfigs ==
  {[alignmentQueries |-> q, safetyPatterns |-> p, roleName |-> f.roleName,
    values |-> f.values, principles |-> f.principles] :
     q \in {None} \cup {Some(SubSeq(AllQueries, 1, n)) : n \in 1..MaxQueries},
     p \in {None, Some(<<>>), Some(<<RegExp(<<"s">>, {"i"})>>)},
     f \in {[roleName |-> None, values |-> None, principles |-> None],
            [roleName |-> Some("communicator"), values |-> Some("care"),
             principles |-> Some(<<"be precise">>)]}}

Init ==
  /\ FilterIdle
  /\ ScanIdle
  /\ HookIdle
  /\ SendIdle
  /\ EndIdle
  /\ InitIdle
  /\ ToolIdle
  /\ lConfig \in LoadConfigs
  /\ lCard = Unissued
  /\ lChat = <<>>
  /\ lRepr = Unissued
  /\ lOrder = <<>>
  /\ lTimer = "unset"
  /\ lWinner = "none"
  /\ lAtReturn = None
  /\ lResult = None
  /\ lPc = "start"

\* loadIdentityContext is called: the three layers are requested and the
\* timer is armed
LoadCall ==
  /\ lPc = "start"
  /\ lCard' = Pending
  /\ lChat' = [k \in 1..Len(OrDefault(lConfig.alignmentQueries, <<>>)) |-> Pending]
  /\ lRepr' = Pending
  /\ lTimer' = "armed"
  /\ lPc' = "racing"
  /\ UNCHANGED <<lConfig, lOrder, lWinner, lAtReturn, lResult, filterVars, scanVars, hookVars, sendVars, endVars, initVars, toolVars>>

\* Promise.race settles with `layers`: the rest of loadIdentityContext runs
RaceSettles(layers, winner, card, chats, repr) ==
  /\ lWinner' = winner
  /\ lAtReturn' = Some([card |-> card, chats |-> chats, repr |-> repr])
  /\ IF layers.status = "rejected"
       THEN lResult' = None /\ lPc' = "threw"
       ELSE /\ lResult' = Some(IdentityContext(
                 [peerCard |-> layers.peerCard,
                  alignmentResponses |-> layers.alignmentResponses,
                  representation |-> layers.representation], lConfig))
            /\ lPc' = "returned"

\* a promise of the service settles; when it was the last one outstanding,
\* loadLayers resumes and, unless the timer has won already, wins the race
Settles(card, chats, repr, order) ==
  /\ lCard' = card
  /\ lChat' = chats
  /\ lRepr' = repr
  /\ lOrder' = order
  /\ IF /\ lPc = "racing"
        /\ IsSettled(card)
        /\ \A k \in 1..Len(chats) : IsSettled(chats[k])
        /\ IsSettled(repr)
       THEN RaceSettles(loadLayers(card, chats, repr), "layers", card, chats, repr)
       ELSE UNCHANGED <<lWinner, lAtReturn, lResult, lPc>>
  /\ UNCHANGED <<lConfig, lTimer, filterVars, scanVars, hookVars, sendVars, endVars, initVars, toolVars>>

CardSettles ==
  /\ lCard.st = "pending"
  /\ \E o \in CardOutcomes : Settles(o, lChat, lRepr, lOrder)

ChatSettles ==
  \E k \in 1..Len(lChat) :
    /\ lChat[k].st = "pending"
    /\ \E o \in ChatOutcomes(Get(lConfig.alignmentQueries)[k]) :
         Settles(lCard, [lChat EXCEPT ![k] = o], lRepr, Append(lOrder, k))

ReprSettles ==
  /\ lRepr.st = "pending"
  /\ \E o \in ReprOutcomes : Settles(lCard, lChat, o, lOrder)

\* (a variant: the timer runs out but never resolves the timeout promise)
TimerFires_NeverResolves ==
  /\ lTimer = "armed"
  /\ lTimer' = "fired"
  /\ UNCHANGED <<lWinner, lAtReturn, lResult, lPc>>
  /\ UNCHANGED <<lConfig, lCard, lChat, lRepr, lOrder, filterVars, scanVars, hookVars, sendVars, endVars, initVars, toolVars>>

\* the setTimeout callback runs: it resolves the timeout promise, which wins
\* the race when loadLayers has not settled yet
TimerFires ==
  /\ lTimer = "armed"
  /\ lTimer' = "fired"
  /\ IF lPc = "racing"
       THEN RaceSettles(TimeoutDefault, "timer", lCard, lChat, lRepr)
       ELSE UNCHANGED <<lWinner, lAtReturn, lResult, lPc>>
  /\ UNCHANGED <<lConfig, lCard, lChat, lRepr, lOrder, filterVars, scanVars, hookVars, sendVars, endVars, initVars, toolVars>>

Next ==
  \/ LoadCall
  \/ CardSettles
  \/ ChatSettles
  \/ ReprSettles
  \/ TimerFires

Spec == Init /\ [][Next]_vars

\* the timer is a macrotask of the event loop: once armed it does fire
SpecLive == Init /\ [][Next]_vars /\ WF_vars(TimerFires)

------------------------------------------------------------------------------
\* Claims about loadIdentityContext

Returned == lPc = "returned"

\* the chat answers that were fulfilled and truthy, in alignmentQueries order
FulfilledAnswers(chats) ==
  LET kept == {k \in 1..Len(chats) :
                 /\ chats[k].st = "fulfilled"
                 /\ ~IsNone(chats[k].v)
                 /\ Get(chats[k].v) # ""}
      nth[n \in 0..Cardinality(kept)] ==
        IF n = 0 THEN 0 ELSE Min({k \in kept : k > nth[n - 1]})
  IN  [n \in 1..Cardinality(kept) |-> Get(chats[nth[n]].v)]

\* C1: loadIdentityContext never rejects; whatever combination of getCard,
\* chat queries and representation rejected, it resolves with the rejected
\* layers reported as peerCard = null / no answer / representation = null and
\* with a systemPrompt that starts with the role declaration line.
C1_NeverThrows ==
  /\ lPc # "threw"
  /\ Returned =>
       LET r == Get(lResult)
           at == Get(lAtReturn)
           queries == OrDefault(lConfig.alignmentQueries, <<>>)
       IN  /\ at.card.st = "rejected" => r.peerCard = None
           /\ \A k \in 1..Len(at.chats) :
                at.chats[k].st = "rejected" =>
                  \A n \in 1..Len(r.alignmentResponses) :
                    r.alignmentResponses[n] # AnswerTo(queries[k])
           /\ at.repr.st = "rejected" => r.representation = None
           /\ Len(r.systemPrompt) >= 1
           /\ r.systemPrompt[1] = RoleLine(OrDefault(lConfig.roleName, "agent"))

\* C1 witness: the call returned after every fetch had rejected
C1_AllRejectedReturned ==
  /\ Returned
  /\ lWinner = "layers"
  /\ Get(lAtReturn).card.st = "rejected"
  /\ Get(lAtReturn).repr.st = "rejected"
  /\ Len(Get(lAtReturn).chats) = MaxQueries
  /\ \A k \in 1..Len(Get(lAtReturn).chats) : Get(lAtReturn).chats[k].st = "rejected"

C3_AlwaysCompletes ==
  /\ [](lTimer = "fired" => Returned)
  /\ (lPc = "racing") ~> Returned

\* C3 witness: the call returned while every fetch was still outstanding
C3_ReturnedWithAllOutstanding ==
  /\ Returned
  /\ lWinner = "timer"
  /\ Get(lAtReturn).card.st = "pending"
  /\ Get(lAtReturn).repr.st = "pending"
  /\ Len(Get(lAtReturn).chats) = MaxQueries
  /\ \A k \in 1..Len(Get(lAtReturn).chats) : Get(lAtReturn).chats[k].st = "pending"

RacedRepresentation ==
  IF lWinner = "timer" \/ Get(lAtReturn).repr.st # "fulfilled"
    THEN None ELSE Get(lAtReturn).repr.v

\* C12: loadIdentityContext applies the safety filter only to a non-null
\* representation and only when safetyPatterns is defined; with safetyPatterns
\* undefined or the empty list the representation returned is the one the
\* race resolved with, unchanged (untrimmed, never turned into null).
C12_NoPatternsNoFiltering ==
  Returned =>
    LET r == Get(lResult)
    IN  /\ IsNone(RacedRepresentation) => r.representation = None
        /\ (IsNone(lConfig.safetyPatterns) \/ Get(lConfig.safetyPatterns) = <<>>)
             => r.representation = RacedRepresentation

\* a representation with leading white space returned as fetched under the
\* empty pattern list
C12_EmptyListKeepsUntrimmed ==
  /\ Returned
  /\ lConfig.safetyPatterns = Some(<<>>)
  /\ RacedRepresentation = Some(<<" ", "\n", "s">>)
  /\ Get(lResult).representation = Some(<<" ", "\n", "s">>)

\* a line made of white space only
IsBlankLine(line) == \A i \in 1..Len(line) : IsSpace(line[i])

\* every line of the text is matched by a pattern or blank
NothingSurvives(text, patterns) ==
  LET lines == SplitLines(text)
  IN  \A n \in 1..Len(lines) :
        \/ IsBlankLine(lines[n])
        \/ \E k \in 1..Len(patterns) : MatchesFromStart(patterns[k], lines[n])

HasRecentContext(prompt) ==
  \E n \in 1..Len(prompt) : prompt[n] = Line("## Recent Context")

\* C13: when the filter removes every line of the representation, or leaves
\* white space only, loadIdentityContext returns representation = null and
\* a prompt without the Recent Context section, and does not throw.
C13_AllFilteredYieldsNull ==
  /\ lPc # "threw"
  /\ (/\ Returned
      /\ ~IsNone(RacedRepresentation)
      /\ Get(RacedRepresentation) # <<>>
      /\ ~IsNone(lConfig.safetyPatterns)
      /\ Get(lConfig.safetyPatterns) # <<>>
      /\ NothingSurvives(Get(RacedRepresentation), Get(lConfig.safetyPatterns)))
       => /\ Get(lResult).representation = None
          /\ ~HasRecentContext(Get(lResult).systemPrompt)

\* the filter removed the only content line and white space was left
C13_OnlyWhitespaceSurvived ==
  /\ Returned
  /\ RacedRepresentation = Some(<<" ", "\n", "s">>)
  /\ ~IsNone(lConfig.safetyPatterns)
  /\ Get(lConfig.safetyPatterns) # <<>>
  /\ Get(lResult).representation = None

\* the section headers, in the order the prompt is to show them
SectionOrder ==
  <<"## Identity", "## Understanding", "## Recent Context", "## Values",
    "## Operating Principles">>

IsHeader(part) == \E n \in 1..Len(SectionOrder) : part = Line(SectionOrder[n])

\* the section has something to show in the returned context
SectionFilled(name, r, config) ==
  CASE name = "## Identity" -> ~IsNone(r.peerCard) /\ Get(r.peerCard) # <<>>
    [] name = "## Understanding" -> r.alignmentResponses # <<>>
    [] name = "## Recent Context" ->
         ~IsNone(r.representation) /\ Get(r.representation) # <<>>
    [] name = "## Values" -> ~IsNone(config.values) /\ Get(config.values) # ""
    [] OTHER -> ~IsNone(config.principles) /\ Get(config.principles) # <<>>

\* C15: the prompt starts with the role declaration line, and its section
\* headers are exactly those of the non-empty inputs, each once, in the order
\* Identity, Understanding, Recent Context, Values, Operating Principles.
C15_SectionsInFixedOrder ==
  Returned =>
    LET r == Get(lResult)
        Filled(name) == SectionFilled(name, r, lConfig)
    IN  /\ r.systemPrompt[1] = RoleLine(OrDefault(lConfig.roleName, "agent"))
        /\ SelectSeq(r.systemPrompt, IsHeader)
             = [n \in 1..Len(SelectSeq(SectionOrder, Filled)) |->
                  Line(SelectSeq(SectionOrder, Filled)[n])]

\* a prompt with all five sections
C15_AllSectionsPresent ==
  /\ Returned
  /\ Len(SelectSeq(Get(lResult).systemPrompt, IsHeader)) = 5

\* C18 as claimed: when the timer wins the race the call returns the layers
\* loaded so far: a peer card fetched before the timer fired is the peerCard
\* returned, and a representation fetched before it is the representation
\* returned (when no safety patterns are configured).
C18_TimeoutReturnsLoadedLayers ==
  (Returned /\ lWinner = "timer") =>
    LET at == Get(lAtReturn)
        r == Get(lResult)
    IN  /\ at.card.st = "fulfilled" => r.peerCard = at.card.v
        /\ (at.repr.st = "fulfilled" /\ IsNone(lConfig.safetyPatterns))
             => r.representation = at.repr.v

------------------------------------------------------------------------------
\* scanning.ts: code stripping, scanOutbound, redactOutbound

\* the backtick character (a TLA+ string cannot hold one; it is written ^)
BT == "^"

\* s has a fence (three backticks) at the 1-based position i
IsFenceAt(s, i) ==
  /\ i + 2 <= Len(s)
  /\ s[i] = BT /\ s[i + 1] = BT /\ s[i + 2] = BT

\* the fenced-block pattern (fence, anything, lazily, fence) with the g flag,
\* exec(s) from lastIndex: the leftmost opening fence that
\* has a closing fence after it, up to the nearest closing fence. index is
\* 0-based (-1 for no match), lastIndex the 0-based end of the match.
FencedExec(s, lastIndex) ==
  LET opens == {i \in (lastIndex + 1)..Len(s) :
                  IsFenceAt(s, i) /\ \E j \in (i + 3)..Len(s) : IsFenceAt(s, j)}
  IN  IF opens = {} THEN [index |-> -1, lastIndex |-> 0]
      ELSE LET i == Min(opens)
               j == Min({k \in (i + 3)..Len(s) : IsFenceAt(s, k)})
           IN  [index |-> i - 1, lastIndex |-> j + 2]

\* the inline-code pattern (backtick, one or more non-backticks, backtick)
\* with the g flag, exec(s) from lastIndex: the leftmost backtick followed by at
\* least one other character and then a backtick
InlineExec(s, lastIndex) ==
  LET opens == {i \in (lastIndex + 1)..Len(s) :
                  /\ s[i] = BT
                  /\ i + 2 <= Len(s)
                  /\ s[i + 1] # BT
                  /\ \E j \in (i + 2)..Len(s) : s[j] = BT}
  IN  IF opens = {} THEN [index |-> -1, lastIndex |-> 0]
      ELSE LET i == Min(opens)
               j == Min({k \in (i + 2)..Len(s) : s[k] = BT})
           IN  [index |-> i - 1, lastIndex |-> j]

\* text.replace(fenced-block pattern, "")
RECURSIVE RemoveFenced(_, _)
RemoveFenced(s, lastIndex) ==
  LET m == FencedExec(s, lastIndex)
  IN  IF m.index < 0 THEN SubSeq(s, lastIndex + 1, Len(s))
      ELSE SubSeq(s, lastIndex + 1, m.index) \o RemoveFenced(s, m.lastIndex)

\* stripped.replace(inline-code pattern, "")
RECURSIVE RemoveInline(_, _)
RemoveInline(s, lastIndex) ==
  LET m == InlineExec(s, lastIndex)
  IN  IF m.index < 0 THEN SubSeq(s, lastIndex + 1, Len(s))
      ELSE SubSeq(s, lastIndex + 1, m.index) \o RemoveInline(s, m.lastIndex)

\* a variant that strips fenced blocks only
stripCodeBlocks_FencedOnly(text) == RemoveFenced(text, 0)

stripCodeBlocks(text) == RemoveInline(RemoveFenced(text, 0), 0)

\* new RegExp(pattern.source, flags with "g" added if missing)
GlobalCopy(pattern) == RegExp(pattern.source, pattern.flags \cup {"g"})

\* scannable.matchAll(globalPattern): exec until it fails
RECURSIVE MatchAll(_, _)
MatchAll(re, s) ==
  LET e == RegExpExec(re, s)
  IN  IF e.index < 0 THEN <<>>
      ELSE <<SubSeq(s, e.index + 1, e.index + Len(re.source))>>
             \o MatchAll(e.re, s)

\* match[0].length > 20 ? match[0].slice(0, 20) + "..." : match[0]
Truncate(m) ==
  IF Len(m) > 20 THEN SubSeq(m, 1, 20) \o <<".", ".", ".">> ELSE m

\* the outer loop of scanOutbound over the patterns, from the k-th on
RECURSIVE ScanFindings(_, _, _)
ScanFindings(scannable, patterns, k) ==
  IF k > Len(patterns) THEN <<>>
  ELSE LET p == patterns[k]
           ms == MatchAll(GlobalCopy(p.pattern), scannable)
       IN  [i \in 1..Len(ms) |->
              [pattern |-> p.name, match |-> Truncate(ms[i]),
               severity |-> p.severity]]
             \o ScanFindings(scannable, patterns, k + 1)

\* a variant in which any finding blocks
hasBlocker_AnyFinding(findings) == findings # <<>>

\* findings.some((f) => f.severity === "block")
hasBlocker(findings) ==
  \E i \in 1..Len(findings) : findings[i].severity = "block"

scanOutbound(text, patterns) ==
  LET scannable == stripCodeBlocks(text)
      findings == ScanFindings(scannable, patterns, 1)
  IN  [safe |-> ~hasBlocker(findings), findings |-> findings]

Segment(text, isCode) == [text |-> text, isCode |-> isCode]

\* (a variant of the first loop that forgets the text after the last block)
RECURSIVE FencedSegments_DropTail(_, _)
FencedSegments_DropTail(text, lastIndex) ==
  LET m == FencedExec(text, lastIndex)
  IN  IF m.index < 0 THEN <<>>
      ELSE (IF m.index > lastIndex
              THEN <<Segment(SubSeq(text, lastIndex + 1, m.index), FALSE)>>
              ELSE <<>>)
           \o <<Segment(SubSeq(text, m.index + 1, m.lastIndex), TRUE)>>
           \o FencedSegments_DropTail(text, m.lastIndex)

\* the first loop of redactOutbound: fenced blocks and the text between them
RECURSIVE FencedSegments(_, _)
FencedSegments(text, lastIndex) ==
  LET m == FencedExec(text, lastIndex)
  IN  IF m.index < 0
        THEN IF lastIndex < Len(text)
               THEN <<Segment(SubSeq(text, lastIndex + 1, Len(text)), FALSE)>>
               ELSE <<>>
        ELSE (IF m.index > lastIndex
                THEN <<Segment(SubSeq(text, lastIndex + 1, m.index), FALSE)>>
                ELSE <<>>)
             \o <<Segment(SubSeq(text, m.index + 1, m.lastIndex), TRUE)>>
             \o FencedSegments(text, m.lastIndex)

\* the inner loop: inline code spans of one non-fenced segment
RECURSIVE InlineSegments(_, _)
InlineSegments(text, inlineLast) ==
  LET m == InlineExec(text, inlineLast)
  IN  IF m.index < 0
        THEN IF inlineLast < Len(text)
               THEN <<Segment(SubSeq(text, inlineLast + 1, Len(text)), FALSE)>>
               ELSE <<>>
        ELSE (IF m.index > inlineLast
                THEN <<Segment(SubSeq(text, inlineLast + 1, m.index), FALSE)>>
                ELSE <<>>)
             \o <<Segment(SubSeq(text, m.index + 1, m.lastIndex), TRUE)>>
             \o InlineSegments(text, m.lastIndex)

\* the second loop: finalSegments
RECURSIVE FinalSegments(_)
FinalSegments(segments) ==
  IF segments = <<>> THEN <<>>
  ELSE (IF Head(segments).isCode THEN <<Head(segments)>>
        ELSE InlineSegments(Head(segments).text, 0))
       \o FinalSegments(Tail(segments))

REDACTED == <<"[", "R", "E", "D", "A", "C", "T", "E", "D", "]">>

\* redacted.replace(globalPattern, "[REDACTED]"): every match found by exec
\* on the string as it is before this replace
RECURSIVE Replace(_, _, _, _)
Replace(s, re, replacement, pos) ==
  LET e == RegExpExec(re, s)
  IN  IF e.index < 0 THEN SubSeq(s, pos + 1, Len(s))
      ELSE SubSeq(s, pos + 1, e.index) \o replacement
             \o Replace(s, e.re, replacement, e.index + Len(re.source))

\* the loop over the patterns inside the map callback, from the k-th on
RECURSIVE RedactWith(_, _, _)
RedactWith(redacted, patterns, k) ==
  IF k > Len(patterns) THEN redacted
  ELSE IF patterns[k].severity # "block"
    THEN RedactWith(redacted, patterns, k + 1)
    ELSE RedactWith(Replace(redacted, GlobalCopy(patterns[k].pattern),
                            REDACTED, 0),
                    patterns, k + 1)

\* a variant that redacts code segments as well
RedactSegment_CodeToo(seg, patterns) == RedactWith(seg.text, patterns, 1)

\* the map callback
RedactSegment(seg, patterns) ==
  IF seg.isCode THEN seg.text ELSE RedactWith(seg.text, patterns, 1)

\* pieces.join("")
RECURSIVE Concat(_)
Concat(pieces) ==
  IF pieces = <<>> THEN <<>> ELSE Head(pieces) \o Concat(Tail(pieces))

redactOutbound(text, patterns) ==
  LET finalSegments == FinalSegments(FencedSegments(text, 0))
      pieces == [i \in 1..Len(finalSegments) |->
                   RedactSegment(finalSegments[i], patterns)]
  IN  [finalSegments |-> finalSegments, pieces |-> pieces,
       text |-> Concat(pieces)]

------------------------------------------------------------------------------
\* Driver of the scanner and the redactor: one outbound text, one pattern list

Fence == <<BT, BT, BT>>

ScanTokens == {Fence, <<BT>>, <<"K">>, <<"w">>}

ScanTexts == {Concat(ts) : ts \in StringsUpTo(ScanTokens, MaxTokens)}

ScanPattern(name, pattern, severity) ==
  [name |-> name, pattern |-> pattern, severity |-> severity]

\* block and warn patterns, overlapping ones, ignoreCase and global ones
ScanPatternLists ==
  { <<ScanPattern("kw-secret", RegExp(<<"K", "w">>, {}), "block"),
      ScanPattern("wk-secret", RegExp(<<"w", "K">>, {}), "block"),
      ScanPattern("w-note", RegExp(<<"w">>, {}), "warn")>>,
    <<ScanPattern("w-note", RegExp(<<"w">>, {"g"}), "warn"),
      ScanPattern("k-note", RegExp(<<"k">>, {"i"}), "warn")>>,
    <<ScanPattern("w-note", RegExp(<<"W">>, {"i"}), "warn"),
      ScanPattern("kw-secret", RegExp(<<"k", "w">>, {"i"}), "block")>> }

InitScan ==
  /\ sText \in ScanTexts
  /\ sPatterns \in ScanPatternLists
  /\ sScan = None
  /\ sSegments = <<>>
  /\ sPieces = <<>>
  /\ sRedacted = None
  /\ FilterIdle
  /\ LoadIdle
  /\ HookIdle
  /\ SendIdle
  /\ EndIdle
  /\ InitIdle
  /\ ToolIdle

ScanCall ==
  /\ IsNone(sScan)
  /\ sScan' = Some(scanOutbound(sText, sPatterns))
  /\ UNCHANGED <<sText, sPatterns, sSegments, sPieces, sRedacted>>
  /\ UNCHANGED <<filterVars, loadVars, hookVars, sendVars, endVars, initVars, toolVars>>

RedactCall ==
  /\ IsNone(sRedacted)
  /\ LET r == redactOutbound(sText, sPatterns)
     IN  /\ sSegments' = r.finalSegments
         /\ sPieces' = r.pieces
         /\ sRedacted' = Some(r.text)
  /\ UNCHANGED <<sText, sPatterns, sScan>>
  /\ UNCHANGED <<filterVars, loadVars, hookVars, sendVars, endVars, initVars, toolVars>>

NextScan == ScanCall \/ RedactCall

SpecScan == InitScan /\ [][NextScan]_vars

------------------------------------------------------------------------------
\* Claims about scanOutbound and redactOutbound

\* the elements of a set of numbers in ascending order
RECURSIVE Ascending(_)
Ascending(P) ==
  IF P = {} THEN <<>> ELSE <<Min(P)>> \o Ascending(P \ {Min(P)})

\* the characters of s at the positions P, in order
CharsAt(s, P) == LET at == Ascending(P) IN [k \in 1..Len(at) |-> s[at[k]]]

\* the positions of s inside a fenced code block: blocks are taken left to
\* right, each from an opening fence to the nearest closing fence
RECURSIVE FencedPositions(_, _)
FencedPositions(s, from) ==
  LET closes(i) == {j \in (i + 3)..Len(s) : IsFenceAt(s, j)}
      opens == {i \in from..Len(s) : IsFenceAt(s, i) /\ closes(i) # {}}
  IN  IF opens = {} THEN {}
      ELSE LET i == Min(opens)
               j == Min(closes(i))
           IN  (i..(j + 2)) \cup FencedPositions(s, j + 3)

\* the positions of r inside an inline code span: a backtick, one or more
\* other characters, a backtick; spans are taken left to right
RECURSIVE InlinePositions(_, _)
InlinePositions(r, from) ==
  LET closes(i) == {j \in (i + 2)..Len(r) : r[j] = BT}
      opens == {i \in from..Len(r) :
                  /\ r[i] = BT
                  /\ i + 1 <= Len(r) /\ r[i + 1] # BT
                  /\ closes(i) # {}}
  IN  IF opens = {} THEN {}
      ELSE LET i == Min(opens)
               j == Min(closes(i))
           IN  (i..j) \cup InlinePositions(r, j + 1)

\* the positions of the text inside a code span as the scanner delimits
\* them: fenced blocks, then inline spans of what is left of the text
CodePositions(s) ==
  LET fenced == FencedPositions(s, 1)
      rest == Ascending((1..Len(s)) \ fenced)
      r == [k \in 1..Len(rest) |-> s[rest[k]]]
  IN  fenced \cup {rest[k] : k \in InlinePositions(r, 1)}

\* the text outside code spans
NonCodeText(s) == CharsAt(s, (1..Len(s)) \ CodePositions(s))

\* the 0-based indices at which the pattern matches s
MatchesIn(s, p) ==
  {i \in 0..Len(s) : MatchAt(s, i, p.pattern.source, p.pattern.flags)}

IsBlock(p) == p.severity = "block"

BlockPatterns(patterns) == SelectSeq(patterns, IsBlock)

RECURSIVE MatchCount(_, _)
MatchCount(s, patterns) ==
  IF patterns = <<>> THEN 0
  ELSE Cardinality(MatchesIn(s, Head(patterns))) + MatchCount(s, Tail(patterns))

Scanned == ~IsNone(sScan)

Redacted == ~IsNone(sRedacted)

C7_CodeSegmentsUnaltered ==
  Redacted =>
    /\ Concat([i \in 1..Len(sSegments) |-> sSegments[i].text]) = sText
    /\ Len(sPieces) = Len(sSegments)
    /\ \A i \in 1..Len(sSegments) :
         sSegments[i].isCode => sPieces[i] = sSegments[i].text
    /\ Get(sRedacted) = Concat(sPieces)

\* a redaction next to a code segment that holds a block match
C7_CodeKeptNextToRedaction ==
  /\ Redacted
  /\ \E i \in 1..Len(sSegments) :
       /\ sSegments[i].isCode
       /\ MatchCount(sSegments[i].text, BlockPatterns(sPatterns)) > 0
  /\ \E j \in 1..Len(sSegments) :
       ~sSegments[j].isCode /\ sPieces[j] # sSegments[j].text

\* the characters of a redacted piece that come from the input
IsInputChar(c) == c \in {BT, "K", "w"}

\* the positions of s covered by a match of a block pattern
BlockCovered(s, patterns) ==
  UNION {UNION {(i + 1)..(i + Len(patterns[k].pattern.source)) :
                  i \in MatchesIn(s, patterns[k])} :
           k \in {n \in 1..Len(patterns) : IsBlock(patterns[n])}}

\* C8: in every non-code segment redactOutbound replaces every match of
\* every block-severity pattern and nothing else: the input characters left
\* in the segment's piece are exactly those no block match covers.
C8_EveryBlockMatchRedacted ==
  Redacted =>
    \A i \in 1..Len(sSegments) :
      ~sSegments[i].isCode =>
        SelectSeq(sPieces[i], IsInputChar)
          = CharsAt(sSegments[i].text,
                    (1..Len(sSegments[i].text))
                      \ BlockCovered(sSegments[i].text, sPatterns))

\* C14: the segmentation of redactOutbound is lossless: the segment texts
\* concatenated in order are the input, for every input, and with a pattern
\* list without block-severity patterns redactOutbound returns the input.
C14_SegmentationLossless ==
  Redacted =>
    /\ Concat([i \in 1..Len(sSegments) |-> sSegments[i].text]) = sText
    /\ BlockPatterns(sPatterns) = <<>> => Get(sRedacted) = sText

\* an empty fenced block, an unmatched backtick and a warn-only match, under
\* a pattern list without block patterns
C14_EmptyFenceAndLoneBacktick ==
  /\ Redacted
  /\ sText = Fence \o Fence \o <<BT, "w">>
  /\ BlockPatterns(sPatterns) = <<>>
  /\ Len(sSegments) = 2
  /\ Get(sRedacted) = sText

\* the positions of the input inside the code segments of redactOutbound
RECURSIVE SegmentCodePositions(_, _)
SegmentCodePositions(segments, offset) ==
  IF segments = <<>> THEN {}
  ELSE LET seg == Head(segments)
       IN  (IF seg.isCode THEN (offset + 1)..(offset + Len(seg.text)) ELSE {})
             \cup SegmentCodePositions(Tail(segments), offset + Len(seg.text))

\* C20 as claimed: scanOutbound and redactOutbound delimit the same code
\* spans (a position of the input is exempt from scanning exactly when it is
\* exempt from redaction), and for the same pattern list redactOutbound
\* changes the text exactly when scanOutbound reports a block finding.
C20_SameSegmentation ==
  (Scanned /\ Redacted) =>
    /\ CodePositions(sText) = SegmentCodePositions(sSegments, 0)
    /\ (Get(sRedacted) # sText) <=> ~Get(sScan).safe

------------------------------------------------------------------------------
\* index.ts: the before_agent_start hook, ensureInitialized and the identity
\* cache

IDENTITY_CACHE_TTL_MS == 30000

Calls == 1..MaxCalls

\* the clock moves by half a TTL or a whole one, up to MaxClock
ClockSteps == {IDENTITY_CACHE_TTL_MS \div 2, IDENTITY_CACHE_TTL_MS}

MaxClock == MaxTtlSpans * IDENTITY_CACHE_TTL_MS

\* the identityConfig built from the plugin configuration
HookConfig ==
  [alignmentQueries |-> Some(<<"q1">>), safetyPatterns |-> None,
   roleName |-> None, values |-> Some("care"), principles |-> None]

\* what loadIdentityContext can resolve with: the timeout default, or layers
\* the service answered
HookIdentities ==
  {IdentityContext(TimeoutDefault, HookConfig),
   IdentityContext(loadLayers(Fulfilled(Some(<<"fact 1">>)),
                              <<Fulfilled(Some("a1"))>>,
                              Fulfilled(Some(<<"x">>))),
                   HookConfig)}

\* what a before_agent_start invocation returns
HookReturn(kind, systemPrompt, summary) ==
  [kind |-> kind, systemPrompt |-> systemPrompt, summary |-> summary]

\* an invocation that has not started
IdleCall ==
  [pc |-> "idle", checked |-> FALSE, now |-> 0, cacheSeen |-> None,
   identity |-> None, fetched |-> FALSE, ret |-> None]

InitHook ==
  /\ useThreeLayer \in BOOLEAN
  /\ hNow = 0
  /\ initialized = FALSE
  /\ initFailed = FALSE
  /\ initPromise = "null"
  /\ currentSessionKey = "default"
  /\ identityCache = None
  /\ hCall = [c \in Calls |-> IdleCall]
  /\ FilterIdle
  /\ LoadIdle
  /\ ScanIdle
  /\ SendIdle
  /\ EndIdle
  /\ InitIdle
  /\ ToolIdle

\* (a variant: the cache is never taken to be fresh)
CacheFresh_Never(cache, now) == FALSE

\* identityCache && identityCache.expiresAt > now
CacheFresh(cache, now) == ~IsNone(cache) /\ Get(cache).expiresAt > now

\* the handler from the resolution of ensureInitialized to its next await:
\* the cached identity is taken, or loadIdentityContext is called
AfterInit(call) ==
  IF useThreeLayer
    THEN IF CacheFresh(identityCache, hNow)
           THEN [call EXCEPT !.pc = "awaitSummary", !.checked = TRUE,
                             !.now = hNow, !.cacheSeen = identityCache,
                             !.identity = Some(Get(identityCache).result)]
           ELSE [call EXCEPT !.pc = "loading", !.checked = TRUE,
                             !.now = hNow, !.cacheSeen = identityCache,
                             !.fetched = TRUE]
    ELSE [call EXCEPT !.pc = "awaitFlat"]

\* before_agent_start fires: empty prompts are skipped, the session key is
\* tracked, ensureInitialized is awaited (and starts an attempt if none is
\* in flight). Invocations are numbered in the order they start.
BeforeAgentStart(c, prompt, key) ==
  /\ hCall[c].pc = "idle"
  /\ IF c = 1 THEN TRUE ELSE hCall[c - 1].pc # "idle"
  /\ IF prompt = ""
       THEN /\ hCall' = [hCall EXCEPT ![c].pc = "done"]
            /\ UNCHANGED <<currentSessionKey, initPromise>>
       ELSE /\ currentSessionKey' = key
            /\ IF initialized
                 THEN /\ hCall' = [hCall EXCEPT ![c] = AfterInit(hCall[c])]
                      /\ UNCHANGED initPromise
                 ELSE /\ hCall' = [hCall EXCEPT ![c].pc = "awaitInit"]
                      /\ initPromise' = "pending"
  /\ UNCHANGED <<useThreeLayer, hNow, initialized, initFailed, identityCache>>
  /\ UNCHANGED <<filterVars, loadVars, scanVars, sendVars, endVars, initVars, toolVars>>

HookStarts ==
  \E c \in Calls, prompt \in {"", "hi"}, key \in {"agent-a", "agent-b"} :
    BeforeAgentStart(c, prompt, key)

\* the initialization attempt succeeds
InitSucceeds ==
  /\ initPromise = "pending"
  /\ initialized' = TRUE
  /\ initFailed' = FALSE
  /\ initPromise' = "resolved"
  /\ UNCHANGED <<useThreeLayer, hNow, currentSessionKey, identityCache, hCall>>
  /\ UNCHANGED <<filterVars, loadVars, scanVars, sendVars, endVars, initVars, toolVars>>

\* the attempt fails: every waiting invocation returns the degraded notice
InitFails ==
  /\ initPromise = "pending"
  /\ initFailed' = TRUE
  /\ initPromise' = "null"
  /\ hCall' = [c \in Calls |->
                 IF hCall[c].pc = "awaitInit"
                   THEN [hCall[c] EXCEPT
                           !.pc = "done",
                           !.ret = Some(HookReturn("unavailable", None, None))]
                   ELSE hCall[c]]
  /\ UNCHANGED <<useThreeLayer, hNow, initialized, currentSessionKey, identityCache>>
  /\ UNCHANGED <<filterVars, loadVars, scanVars, sendVars, endVars, initVars, toolVars>>

\* an invocation that waited for the initialization goes on
InitAwaited ==
  \E c \in Calls :
    /\ hCall[c].pc = "awaitInit"
    /\ initialized
    /\ hCall' = [hCall EXCEPT ![c] = AfterInit(hCall[c])]
    /\ UNCHANGED <<useThreeLayer, hNow, initialized, initFailed, initPromise,
                   currentSessionKey, identityCache>>
    /\ UNCHANGED <<filterVars, loadVars, scanVars, sendVars, endVars, initVars, toolVars>>

\* loadIdentityContext resolves: the result is cached for TTL after the `now`
\* read before the call
LoadReturns ==
  \E c \in Calls, result \in HookIdentities :
    /\ hCall[c].pc = "loading"
    /\ identityCache' =
         Some([result |-> result,
               expiresAt |-> hCall[c].now + IDENTITY_CACHE_TTL_MS])
    /\ hCall' = [hCall EXCEPT ![c].pc = "awaitSummary",
                              ![c].identity = Some(result)]
    /\ UNCHANGED <<useThreeLayer, hNow, initialized, initFailed, initPromise,
                   currentSessionKey>>
    /\ UNCHANGED <<filterVars, loadVars, scanVars, sendVars, endVars, initVars, toolVars>>

\* the session summary request settles (summary: what is left of it after
\* the safety filter, null when there is none or the request failed) and the
\* handler returns
SummarySettles ==
  \E c \in Calls, summary \in {None, Some("earlier")} :
    /\ hCall[c].pc = "awaitSummary"
    /\ hCall' = [hCall EXCEPT
                   ![c].pc = "done",
                   ![c].ret = Some(HookReturn("identity",
                                     Some(Get(hCall[c].identity).systemPrompt),
                                     summary))]
    /\ UNCHANGED <<useThreeLayer, hNow, initialized, initFailed, initPromise,
                   currentSessionKey, identityCache>>
    /\ UNCHANGED <<filterVars, loadVars, scanVars, sendVars, endVars, initVars, toolVars>>

\* the flat fallback: the session context request settles and the handler
\* returns the memory context, or nothing (no sections, not found, error)
FlatSettles ==
  \E c \in Calls, sections \in BOOLEAN :
    /\ hCall[c].pc = "awaitFlat"
    /\ hCall' = [hCall EXCEPT
                   ![c].pc = "done",
                   ![c].ret = IF sections
                                THEN Some(HookReturn("flat", None, None))
                                ELSE None]
    /\ UNCHANGED <<useThreeLayer, hNow, initialized, initFailed, initPromise,
                   currentSessionKey, identityCache>>
    /\ UNCHANGED <<filterVars, loadVars, scanVars, sendVars, endVars, initVars, toolVars>>

\* time passes
Tick ==
  \E dt \in ClockSteps :
    /\ hNow + dt <= MaxClock
    /\ hNow' = hNow + dt
    /\ UNCHANGED <<useThreeLayer, initialized, initFailed, initPromise,
                   currentSessionKey, identityCache, hCall>>
    /\ UNCHANGED <<filterVars, loadVars, scanVars, sendVars, endVars, initVars, toolVars>>

NextHook ==
  \/ HookStarts
  \/ InitSucceeds
  \/ InitFails
  \/ InitAwaited
  \/ LoadReturns
  \/ SummarySettles
  \/ FlatSettles
  \/ Tick

SpecHook == InitHook /\ [][NextHook]_vars

\* C10: on the three-layer path an invocation that finds a cache entry with
\* expiresAt > now takes the cached IdentityContext verbatim, issues no
\* fetch and returns its prompt; an invocation fetches only when it found no
\* entry or an expired one; an entry expires 30 s after the now of the
\* invocation that fetched it.
C10_FreshCacheUsedWithoutFetch ==
  /\ \A c \in Calls :
       LET call == hCall[c]
           fresh == /\ ~IsNone(call.cacheSeen)
                    /\ Get(call.cacheSeen).expiresAt > call.now
       IN  call.checked =>
             /\ fresh =>
                  /\ ~call.fetched
                  /\ call.identity = Some(Get(call.cacheSeen).result)
                  /\ call.pc = "done" =>
                       Get(call.ret).systemPrompt
                         = Some(Get(call.cacheSeen).result.systemPrompt)
             /\ call.fetched =>
                  \/ IsNone(call.cacheSeen)
                  \/ Get(call.cacheSeen).expiresAt <= call.now
  /\ ~IsNone(identityCache) =>
       \E c \in Calls :
         /\ hCall[c].fetched
         /\ hCall[c].identity = Some(Get(identityCache).result)
         /\ Get(identityCache).expiresAt = hCall[c].now + 30000

\* an invocation served from the cache, after time has passed, with the
\* identity another invocation fetched
C10_ServedFromCache ==
  \E c, d \in Calls :
    /\ hCall[c].pc = "done" /\ hCall[c].checked /\ ~hCall[c].fetched
    /\ hCall[c].now > 0
    /\ hCall[d].fetched /\ hCall[d].identity = hCall[c].identity
    /\ ~IsNone(hCall[c].ret) /\ Get(hCall[c].ret).kind = "identity"

\* C19 as claimed: any two loadIdentityContext calls started by
\* before_agent_start invocations are at least IDENTITY_CACHE_TTL_MS apart,
\* also when the invocations overlap.
C19_FetchesAtLeastTtlApart ==
  \A c \in Calls, d \in Calls :
    (c < d /\ hCall[c].fetched /\ hCall[d].fetched)
      => hCall[d].now - hCall[c].now >= IDENTITY_CACHE_TTL_MS

\* the IdentityContext of a load in which no layer was obtained: every fetch
\* failed, or the timer won
NothingLoaded == IdentityContext(TimeoutDefault, HookConfig)

\* C22 as claimed: an invocation that could not obtain identity from the
\* memory service returns the memory-unavailable notice; here for the
\* invocations whose loadIdentityContext call came back without any layer
\* (the invocations whose initialization failed do return the notice).
C22_FailedLoadYieldsNotice ==
  \A c \in Calls :
    (/\ hCall[c].pc = "done"
     /\ hCall[c].fetched
     /\ hCall[c].identity = Some(NothingLoaded))
      => (~IsNone(hCall[c].ret) /\ Get(hCall[c].ret).kind = "unavailable")

\* the invocations whose loadIdentityContext call has resolved
Fetched == {c \in Calls : hCall[c].fetched /\ ~IsNone(hCall[c].identity)}

\* C27 as claimed: when a loadIdentityContext call resolves, its result,
\* the all-empty timeout fallback included, is written to the cache with
\* expiresAt 30 s after the now its invocation read before the call; and
\* until that time an invocation that checks the cache finds that entry
\* fresh and takes that identity.
C27_FetchResultServedUntilExpiry ==
  /\ [][\A c \in Calls :
          (hCall[c].pc = "loading" /\ hCall'[c].pc # "loading")
            => identityCache' =
                 Some([result |-> Get(hCall'[c].identity),
                       expiresAt |-> hCall[c].now + IDENTITY_CACHE_TTL_MS])]_vars
  /\ [](\A c \in Fetched :
          hNow < hCall[c].now + IDENTITY_CACHE_TTL_MS
            => /\ CacheFresh(identityCache, hNow)
               /\ Get(identityCache).result = Get(hCall[c].identity))
  /\ [](\A c \in Fetched, d \in Calls :
          (/\ hCall[d].checked /\ ~hCall[d].fetched
           /\ hCall[d].cacheSeen =
                Some([result |-> Get(hCall[c].identity),
                      expiresAt |-> hCall[c].now + IDENTITY_CACHE_TTL_MS]))
            => hCall[d].identity = hCall[c].identity)

------------------------------------------------------------------------------
\* index.ts: the message_sending hook

\* the patterns scanOutbound uses when none are passed
DEFAULT_SCAN_PATTERNS ==
  <<ScanPattern("kw-secret", RegExp(<<"K", "w">>, {}), "block"),
    ScanPattern("wk-secret", RegExp(<<"w", "K">>, {}), "block"),
    ScanPattern("w-note", RegExp(<<"w">>, {}), "warn")>>

StringContent(text) == [kind |-> "string", text |-> text, blocks |-> <<>>]

BlocksContent(blocks) == [kind |-> "blocks", text |-> <<>>, blocks |-> blocks]

\* a content block; text is nullable (typeof b.text === "string")
Block(type, text) == [type |-> type, text |-> text]

IsTextBlock(b) == b.type = "text" /\ ~IsNone(b.text)

\* the texts of the blocks joined with "\n"
RECURSIVE JoinBlocks(_)
JoinBlocks(blocks) ==
  IF blocks = <<>> THEN <<>>
  ELSE IF Len(blocks) = 1 THEN Get(blocks[1].text)
  ELSE Get(blocks[1].text) \o <<"\n">> \o JoinBlocks(Tail(blocks))

\* the text the handler extracts from event.content; null when the handler
\* returns before it has one
ExtractText(content) ==
  CASE content.kind = "string" ->
         IF content.text = <<>> THEN None ELSE Some(content.text)
    [] content.kind = "blocks" ->
         IF content.blocks = <<>> THEN Some(<<>>)
         ELSE Some(JoinBlocks(SelectSeq(content.blocks, IsTextBlock)))
    [] OTHER -> None

\* (a variant that cancels on any finding)
SendVerdict_AnyFinding(result) ==
  IF result.findings # <<>> THEN "cancel" ELSE "undefined"

\* if (!result.safe) return { cancel: true }; ... return;
SendVerdict(result) == IF ~result.safe THEN "cancel" ELSE "undefined"

\* the names of the findings the handler logs
RECURSIVE FindingNames(_, _)
FindingNames(findings, blockOnly) ==
  IF findings = <<>> THEN <<>>
  ELSE (IF blockOnly /\ Head(findings).severity # "block"
          THEN <<>> ELSE <<Head(findings).pattern>>)
       \o FindingNames(Tail(findings), blockOnly)

SendLog(result) ==
  IF ~result.safe
    THEN <<[what |-> "blocked", patterns |-> FindingNames(result.findings, TRUE)]>>
    ELSE IF result.findings # <<>>
      THEN <<[what |-> "warnings", patterns |-> FindingNames(result.findings, FALSE)]>>
      ELSE <<>>

SendBlockTexts ==
  {<<>>, <<"K">>, <<"w">>, <<"K", "w">>, <<BT, "K", "w">>, <<BT>>}

SendBlocks ==
  {Block("text", Some(t)) : t \in SendBlockTexts}
    \cup {Block("text", None), Block("image", None), Block("image", Some(<<"K", "w">>))}

SendContents ==
  {NoContent, [kind |-> "object", text |-> <<>>, blocks |-> <<>>]}
    \cup {StringContent(t) : t \in ScanTexts}
    \cup {BlocksContent(bs) : bs \in StringsUpTo(SendBlocks, MaxBlocks)}

InitSend ==
  /\ enableOutboundScanning \in BOOLEAN
  /\ mContent \in SendContents
  /\ mReturn = "pending"
  /\ mLog = <<>>
  /\ FilterIdle
  /\ LoadIdle
  /\ ScanIdle
  /\ HookIdle
  /\ EndIdle
  /\ InitIdle
  /\ ToolIdle

\* the message_sending handler, registered when scanning is enabled
MessageSending ==
  /\ enableOutboundScanning
  /\ mReturn = "pending"
  /\ LET text == ExtractText(mContent)
     IN  IF mContent.kind = "none" \/ IsNone(text) \/ Get(text) = <<>>
           THEN /\ mReturn' = "undefined"
                /\ UNCHANGED <<mLog, scanVars>>
           ELSE LET result == scanOutbound(Get(text), DEFAULT_SCAN_PATTERNS)
                IN  /\ sText' = Get(text)
                    /\ sPatterns' = DEFAULT_SCAN_PATTERNS
                    /\ sScan' = Some(result)
                    /\ mReturn' = SendVerdict(result)
                    /\ mLog' = SendLog(result)
                    /\ UNCHANGED <<sSegments, sPieces, sRedacted>>
  /\ UNCHANGED <<enableOutboundScanning, mContent>>
  /\ UNCHANGED <<filterVars, loadVars, hookVars, endVars, initVars, toolVars>>

\* without the handler nothing looks at the message
MessageUnscanned ==
  /\ ~enableOutboundScanning
  /\ mReturn = "pending"
  /\ mReturn' = "undefined"
  /\ UNCHANGED <<enableOutboundScanning, mContent, mLog>>
  /\ UNCHANGED <<filterVars, loadVars, scanVars, hookVars, endVars, initVars, toolVars>>

NextSend == MessageSending \/ MessageUnscanned

SpecSend == InitSend /\ [][NextSend]_vars

\* C16: with outbound scanning enabled the handler cancels a message exactly
\* when a block-severity pattern matches its text outside code spans; a
\* message with warn findings only, or none, is never cancelled, and its
\* warn findings are logged.
C16_CancelsExactlyOnBlock ==
  (enableOutboundScanning /\ mReturn # "pending") =>
    LET text == ExtractText(mContent)
        blocked ==
          /\ ~IsNone(text)
          /\ \E k \in 1..Len(DEFAULT_SCAN_PATTERNS) :
               /\ IsBlock(DEFAULT_SCAN_PATTERNS[k])
               /\ MatchesIn(NonCodeText(Get(text)), DEFAULT_SCAN_PATTERNS[k]) # {}
    IN  /\ (mReturn = "cancel") <=> blocked
        /\ (~blocked /\ Scanned /\ Get(sScan).findings # <<>>)
             => (mReturn = "undefined" /\ Len(mLog) = 1 /\ mLog[1].what = "warnings")

\* a message made of content blocks that is cancelled
C16_BlocksMessageCancelled ==
  /\ enableOutboundScanning
  /\ mContent.kind = "blocks"
  /\ Len(mContent.blocks) = 2
  /\ mReturn = "cancel"



------------------------------------------------------------------------------
\* The agent_end hook (index.ts): new messages are persisted to the Honcho
\* session and the session's conversation counter is read, incremented and
\* written back. Each await of the handler is a step of its own.

\* the agent_end invocations of a run
MaxEnds == 2

\* the longest message list within the first-save window
MaxMessages == 2

Ends == 1..MaxEnds

\* the session key buildSessionKey yields for the context of the run
EndSessions == {"agent-a"}

\* on a new session only the last 10 messages are saved
FirstSaveWindow == 10

\* event.messages.length
EndLengths == {0, 1, MaxMessages, FirstSaveWindow + 1}

\* the values cfg.dreamAfterConversations takes (0: not set)
DreamSettings == {0, 1, 2}

Max(a, b) == IF a >= b THEN a ELSE b

\* the session metadata the handler keeps
Metadata(lastSavedIndex, conversationCount, peersAdded) ==
  [lastSavedIndex |-> lastSavedIndex, conversationCount |-> conversationCount,
   peersAdded |-> peersAdded]

\* what a session holds when the plugin starts: nothing, or the metadata
\* left by one saved conversation of one message
StartMetadata == {None, Some(Metadata(1, 1, TRUE))}

\* an invocation that has not started. Besides the handler's locals the
\* record keeps what the invocation did: whether it wrote a new session's
\* first metadata (fresh), the index from which addMessages saved
\* (savedFrom), the incremented count (count), whether scheduleDream
\* resolved (dreamed).
IdleEnd ==
  [pc |-> "idle", key |-> "", len |-> 0, saveable |-> FALSE,
   previous |-> None, overlapped |-> FALSE, meta |-> None, readAt |-> None,
   updatedMeta |-> None, dreamFrom |-> None, outcome |-> "none",
   fresh |-> FALSE, savedFrom |-> None, count |-> 0, dreamed |-> FALSE]

InitEnd ==
  /\ agentEndLock = None
  /\ lockResolved = {}
  /\ dreamAfterConversations \in DreamSettings
  /\ sessionMetadata \in [EndSessions -> StartMetadata]
  /\ metadataAtStart = sessionMetadata
  /\ metadataWrites = [s \in EndSessions |-> 0]
  /\ dreamsScheduled = [s \in EndSessions |-> 0]
  /\ eCall = [c \in Ends |-> IdleEnd]
  /\ useThreeLayer = FALSE
  /\ hNow = 0
  /\ initialized = FALSE
  /\ initFailed = FALSE
  /\ initPromise = "null"
  /\ currentSessionKey = "default"
  /\ identityCache = None
  /\ hCall = <<>>
  /\ FilterIdle
  /\ LoadIdle
  /\ ScanIdle
  /\ SendIdle
  /\ InitIdle
  /\ ToolIdle

\* (a variant: the previous invocation's promise is never awaited)
AwaitsPrevious_Never(previous) == FALSE

\* if (previous) await previous
AwaitsPrevious(previous) == ~IsNone(previous)

\* the awaits of the try block whose rejection the catch block handles
RejectablePcs ==
  {"awaitSession", "awaitGetMetadata", "awaitInitMetadata", "awaitAddPeers",
   "awaitIndexWrite", "awaitAddMessages", "awaitFinalWrite"}

\* the handler is between taking the lock over and releasing it
SectionPcs == RejectablePcs \cup {"awaitInit", "awaitDream"}

\* the invocation has returned (finally { release() }): its locals are gone,
\* what it did is kept
Returned_(call, outcome) ==
  [IdleEnd EXCEPT !.pc = "done", !.outcome = outcome, !.key = call.key,
                  !.len = call.len,
                  !.overlapped = call.overlapped, !.dreamFrom = call.dreamFrom,
                  !.fresh = call.fresh, !.savedFrom = call.savedFrom,
                  !.count = call.count, !.dreamed = call.dreamed]

\* the promises resolved once invocation c stands as next
Release(c, next) ==
  lockResolved' = IF next.pc = "done" /\ next.outcome # "ignored"
                    THEN lockResolved \cup {c}
                    ELSE lockResolved

\* the dream trigger: cfg.dreamAfterConversations is set, at least 2, and
\* reached by the count
DreamDue(conversationCount) ==
  /\ dreamAfterConversations # 0
  /\ dreamAfterConversations >= 2
  /\ conversationCount >= dreamAfterConversations

\* from the skip test to the next await or the return
AfterPeers(call) ==
  LET lastSavedIndex == Get(call.meta).lastSavedIndex
  IN  IF call.len <= lastSavedIndex
        THEN Returned_(call, "skipped")
        ELSE IF ~call.saveable
               THEN [call EXCEPT !.pc = "awaitIndexWrite"]
               ELSE [call EXCEPT !.pc = "awaitAddMessages"]

\* from the metadata in hand to the next await or the return
AfterMetadata(call) ==
  IF ~Get(call.meta).peersAdded
    THEN [call EXCEPT !.pc = "awaitAddPeers"]
    ELSE AfterPeers(call)

\* the handler from the lock to its first await: ensureInitialized is
\* called, and starts an attempt when none is in flight
EnterTry(c, call) ==
  IF initialized
    THEN /\ eCall' = [eCall EXCEPT ![c] = [call EXCEPT !.pc = "awaitSession"]]
         /\ UNCHANGED initPromise
    ELSE /\ eCall' = [eCall EXCEPT ![c] = [call EXCEPT !.pc = "awaitInit"]]
         /\ initPromise' = "pending"

\* agent_end fires: failed or empty runs are ignored; otherwise the
\* invocation puts its own promise into agentEndLock and awaits the one it
\* found there. Invocations are numbered in the order they start.
AgentEnd(c, success, len, key, saveable) ==
  /\ eCall[c].pc = "idle"
  /\ IF c = 1 THEN TRUE ELSE eCall[c - 1].pc # "idle"
  /\ IF ~success \/ len = 0
       THEN /\ eCall' = [eCall EXCEPT ![c] = Returned_(eCall[c], "ignored")]
            /\ UNCHANGED <<agentEndLock, initPromise>>
       ELSE LET call == [eCall[c] EXCEPT
                           !.key = key, !.len = len, !.saveable = saveable,
                           !.previous = agentEndLock,
                           !.overlapped = /\ ~IsNone(agentEndLock)
                                          /\ Get(agentEndLock) \notin lockResolved]
            IN  /\ agentEndLock' = Some(c)
                /\ IF AwaitsPrevious(agentEndLock)
                     THEN /\ eCall' = [eCall EXCEPT ![c] = [call EXCEPT !.pc = "awaitLock"]]
                          /\ UNCHANGED initPromise
                     ELSE EnterTry(c, call)
  /\ UNCHANGED <<lockResolved, dreamAfterConversations, sessionMetadata,
                 metadataAtStart, metadataWrites, dreamsScheduled>>
  /\ UNCHANGED <<useThreeLayer, hNow, initialized, initFailed,
                 currentSessionKey, identityCache, hCall>>
  /\ UNCHANGED <<filterVars, loadVars, scanVars, sendVars, initVars, toolVars>>

\* (a failed or empty run is ignored whatever else the event holds)
EndStarts ==
  \E c \in Ends, success \in BOOLEAN, len \in EndLengths,
     key \in EndSessions, saveable \in BOOLEAN :
    /\ (~success \/ len = 0) => (len <= 1 /\ saveable /\ key = "agent-a")
    /\ AgentEnd(c, success, len, key, saveable)

\* the promise of the previous invocation is resolved: the handler goes on
LockAwaited ==
  \E c \in Ends :
    /\ eCall[c].pc = "awaitLock"
    /\ Get(eCall[c].previous) \in lockResolved
    /\ EnterTry(c, eCall[c])
    /\ UNCHANGED <<agentEndLock, lockResolved, dreamAfterConversations,
                   sessionMetadata, metadataAtStart, metadataWrites, dreamsScheduled>>
    /\ UNCHANGED <<useThreeLayer, hNow, initialized, initFailed,
                   currentSessionKey, identityCache, hCall>>
    /\ UNCHANGED <<filterVars, loadVars, scanVars, sendVars, initVars, toolVars>>

\* the initialization attempt succeeds and the waiting handler goes on
EndInitSucceeds ==
  /\ initPromise = "pending"
  /\ initialized' = TRUE
  /\ initFailed' = FALSE
  /\ initPromise' = "resolved"
  /\ eCall' = [c \in Ends |->
                 IF eCall[c].pc = "awaitInit"
                   THEN [eCall[c] EXCEPT !.pc = "awaitSession"]
                   ELSE eCall[c]]
  /\ UNCHANGED <<agentEndLock, lockResolved, dreamAfterConversations,
                 sessionMetadata, metadataAtStart, metadataWrites, dreamsScheduled>>
  /\ UNCHANGED <<useThreeLayer, hNow, currentSessionKey, identityCache, hCall>>
  /\ UNCHANGED <<filterVars, loadVars, scanVars, sendVars, initVars, toolVars>>

\* the attempt fails: the waiting handler logs the error and releases
EndInitFails ==
  /\ initPromise = "pending"
  /\ initFailed' = TRUE
  /\ initPromise' = "null"
  /\ eCall' = [c \in Ends |->
                 IF eCall[c].pc = "awaitInit"
                   THEN Returned_(eCall[c], "aborted")
                   ELSE eCall[c]]
  /\ lockResolved' = lockResolved \cup {c \in Ends : eCall[c].pc = "awaitInit"}
  /\ UNCHANGED <<agentEndLock, dreamAfterConversations,
                 sessionMetadata, metadataAtStart, metadataWrites, dreamsScheduled>>
  /\ UNCHANGED <<useThreeLayer, hNow, initialized, currentSessionKey,
                 identityCache, hCall>>
  /\ UNCHANGED <<filterVars, loadVars, scanVars, sendVars, initVars, toolVars>>

\* honcho.session(sessionKey) resolves
SessionResolves ==
  \E c \in Ends :
    /\ eCall[c].pc = "awaitSession"
    /\ eCall' = [eCall EXCEPT ![c].pc = "awaitGetMetadata"]
    /\ UNCHANGED <<agentEndLock, lockResolved, dreamAfterConversations,
                   sessionMetadata, metadataAtStart, metadataWrites, dreamsScheduled>>
    /\ UNCHANGED <<hookVars, filterVars, loadVars, scanVars, sendVars, initVars, toolVars>>

\* session.getMetadata() resolves with the stored metadata: a session
\* without lastSavedIndex gets its first metadata written, otherwise the
\* handler goes on to the peers and the skip test
GetMetadataResolves ==
  \E c \in Ends :
    /\ eCall[c].pc = "awaitGetMetadata"
    /\ LET stored == sessionMetadata[eCall[c].key]
           read == [eCall[c] EXCEPT !.meta = stored,
                                    !.readAt = Some(metadataWrites[eCall[c].key])]
           next == IF IsNone(stored)
                     THEN [read EXCEPT !.pc = "awaitInitMetadata"]
                     ELSE AfterMetadata(read)
       IN  /\ eCall' = [eCall EXCEPT ![c] = next]
           /\ Release(c, next)
    /\ UNCHANGED <<agentEndLock, dreamAfterConversations,
                   sessionMetadata, metadataAtStart, metadataWrites, dreamsScheduled>>
    /\ UNCHANGED <<hookVars, filterVars, loadVars, scanVars, sendVars, initVars, toolVars>>

\* the first setMetadata of a new session is committed
InitMetadataCommitted ==
  \E c \in Ends :
    /\ eCall[c].pc = "awaitInitMetadata"
    /\ LET key == eCall[c].key
           startIndex == Max(0, eCall[c].len - FirstSaveWindow)
           meta == Some(Metadata(startIndex, 0, FALSE))
           next == AfterMetadata([eCall[c] EXCEPT
                                    !.meta = meta,
                                    !.fresh = TRUE,
                                    !.readAt = Some(metadataWrites[key] + 1)])
       IN  /\ sessionMetadata' = [sessionMetadata EXCEPT ![key] = meta]
           /\ metadataWrites' = [metadataWrites EXCEPT ![key] = @ + 1]
           /\ eCall' = [eCall EXCEPT ![c] = next]
           /\ Release(c, next)
    /\ UNCHANGED <<agentEndLock, dreamAfterConversations, metadataAtStart, dreamsScheduled>>
    /\ UNCHANGED <<hookVars, filterVars, loadVars, scanVars, sendVars, initVars, toolVars>>

\* session.addPeers resolves
AddPeersResolves ==
  \E c \in Ends :
    /\ eCall[c].pc = "awaitAddPeers"
    /\ LET meta == [Get(eCall[c].meta) EXCEPT !.peersAdded = TRUE]
           next == AfterPeers([eCall[c] EXCEPT !.meta = Some(meta)])
       IN  /\ eCall' = [eCall EXCEPT ![c] = next]
           /\ Release(c, next)
    /\ UNCHANGED <<agentEndLock, dreamAfterConversations,
                   sessionMetadata, metadataAtStart, metadataWrites, dreamsScheduled>>
    /\ UNCHANGED <<hookVars, filterVars, loadVars, scanVars, sendVars, initVars, toolVars>>

\* nothing saveable among the new messages: only the index is written
IndexWriteCommitted ==
  \E c \in Ends :
    /\ eCall[c].pc = "awaitIndexWrite"
    /\ LET key == eCall[c].key
           meta == [Get(eCall[c].meta) EXCEPT !.lastSavedIndex = eCall[c].len]
           next == Returned_(eCall[c], "indexed")
       IN  /\ sessionMetadata' = [sessionMetadata EXCEPT ![key] = Some(meta)]
           /\ metadataWrites' = [metadataWrites EXCEPT ![key] = @ + 1]
           /\ eCall' = [eCall EXCEPT ![c] = next]
           /\ Release(c, next)
    /\ UNCHANGED <<agentEndLock, dreamAfterConversations, metadataAtStart, dreamsScheduled>>
    /\ UNCHANGED <<hookVars, filterVars, loadVars, scanVars, sendVars, initVars, toolVars>>

\* session.addMessages resolves: the count is incremented in updatedMeta
\* and a dream is scheduled when it is due
AddMessagesResolves ==
  \E c \in Ends :
    /\ eCall[c].pc = "awaitAddMessages"
    /\ LET meta == Get(eCall[c].meta)
           conversationCount == meta.conversationCount + 1
           updatedMeta == [meta EXCEPT !.lastSavedIndex = eCall[c].len,
                                       !.conversationCount = conversationCount]
       IN  eCall' = [eCall EXCEPT ![c] =
                       IF DreamDue(conversationCount)
                         THEN [@ EXCEPT !.pc = "awaitDream",
                                        !.updatedMeta = Some(updatedMeta),
                                        !.savedFrom = Some(meta.lastSavedIndex),
                                        !.count = conversationCount,
                                        !.dreamFrom = eCall[c].readAt]
                         ELSE [@ EXCEPT !.pc = "awaitFinalWrite",
                                        !.savedFrom = Some(meta.lastSavedIndex),
                                        !.count = conversationCount,
                                        !.updatedMeta = Some(updatedMeta)]]
    /\ UNCHANGED <<agentEndLock, lockResolved, dreamAfterConversations,
                   sessionMetadata, metadataAtStart, metadataWrites, dreamsScheduled>>
    /\ UNCHANGED <<hookVars, filterVars, loadVars, scanVars, sendVars, initVars, toolVars>>

\* honcho.scheduleDream resolves: the counter is reset in updatedMeta
DreamScheduled ==
  \E c \in Ends :
    /\ eCall[c].pc = "awaitDream"
    /\ eCall' = [eCall EXCEPT
                   ![c].pc = "awaitFinalWrite",
                   ![c].dreamed = TRUE,
                   ![c].updatedMeta =
                     Some([Get(@) EXCEPT !.conversationCount = 0])]
    /\ dreamsScheduled' = [dreamsScheduled EXCEPT ![eCall[c].key] = @ + 1]
    /\ UNCHANGED <<agentEndLock, lockResolved, dreamAfterConversations,
                   sessionMetadata, metadataAtStart, metadataWrites>>
    /\ UNCHANGED <<hookVars, filterVars, loadVars, scanVars, sendVars, initVars, toolVars>>

\* honcho.scheduleDream rejects: caught, the count stays
DreamRejected ==
  \E c \in Ends :
    /\ eCall[c].pc = "awaitDream"
    /\ eCall' = [eCall EXCEPT ![c].pc = "awaitFinalWrite"]
    /\ UNCHANGED <<agentEndLock, lockResolved, dreamAfterConversations,
                   sessionMetadata, metadataAtStart, metadataWrites, dreamsScheduled>>
    /\ UNCHANGED <<hookVars, filterVars, loadVars, scanVars, sendVars, initVars, toolVars>>

\* session.setMetadata(updatedMeta) is committed and the handler returns
FinalWriteCommitted ==
  \E c \in Ends :
    /\ eCall[c].pc = "awaitFinalWrite"
    /\ LET key == eCall[c].key
           next == Returned_(eCall[c], "saved")
       IN  /\ sessionMetadata' = [sessionMetadata EXCEPT ![key] = eCall[c].updatedMeta]
           /\ metadataWrites' = [metadataWrites EXCEPT ![key] = @ + 1]
           /\ eCall' = [eCall EXCEPT ![c] = next]
           /\ Release(c, next)
    /\ UNCHANGED <<agentEndLock, dreamAfterConversations, metadataAtStart, dreamsScheduled>>
    /\ UNCHANGED <<hookVars, filterVars, loadVars, scanVars, sendVars, initVars, toolVars>>

\* an awaited Honcho call rejects: the catch block logs, finally releases
AwaitRejects ==
  \E c \in Ends :
    /\ eCall[c].pc \in RejectablePcs
    /\ LET next == Returned_(eCall[c], "aborted")
       IN  /\ eCall' = [eCall EXCEPT ![c] = next]
           /\ Release(c, next)
    /\ UNCHANGED <<agentEndLock, dreamAfterConversations,
                   sessionMetadata, metadataAtStart, metadataWrites, dreamsScheduled>>
    /\ UNCHANGED <<hookVars, filterVars, loadVars, scanVars, sendVars, initVars, toolVars>>

NextEnd ==
  \/ EndStarts
  \/ LockAwaited
  \/ EndInitSucceeds
  \/ EndInitFails
  \/ SessionResolves
  \/ GetMetadataResolves
  \/ InitMetadataCommitted
  \/ AddPeersResolves
  \/ IndexWriteCommitted
  \/ AddMessagesResolves
  \/ DreamScheduled
  \/ DreamRejected
  \/ FinalWriteCommitted
  \/ AwaitRejects

SpecEnd == InitEnd /\ [][NextEnd]_vars

\* the conversationCount of a session's metadata (0 before the first write)
CountOf(metadata) ==
  IF IsNone(metadata) THEN 0 ELSE Get(metadata).conversationCount

StoredCount(s) == CountOf(sessionMetadata[s])

\* the invocations that committed their final metadata write on session s
SavedOn(s) == {c \in Ends : eCall[c].key = s /\ eCall[c].outcome = "saved"}

SavedBetween(s, c, d) ==
  {e \in Ends : c < e /\ e <= d /\ eCall[e].key = s /\ ~IsNone(eCall[e].savedFrom)}

\* C24 as claimed: scheduleDream is called only by an invocation that saved
\* messages, with dreamAfterConversations >= 2 and reached by the
\* incremented count; an invocation that saved messages leaves the stored
\* count at 0 if scheduleDream resolved and at the incremented count
\* otherwise; and between two dreams scheduled on a session there are at
\* least dreamAfterConversations saved conversations.
C24_DreamFollowsCounter ==
  /\ [](\A c \in Ends :
          ~IsNone(eCall[c].dreamFrom) =>
            /\ ~IsNone(eCall[c].savedFrom)
            /\ dreamAfterConversations >= 2
            /\ eCall[c].count >= dreamAfterConversations)
  /\ [][\A c \in Ends :
          (/\ eCall[c].pc # "done"
           /\ eCall'[c].pc = "done"
           /\ ~IsNone(eCall'[c].savedFrom))
            => CountOf(sessionMetadata'[eCall'[c].key])
                 = IF eCall'[c].dreamed THEN 0 ELSE eCall'[c].count]_vars
  /\ [](\A c \in Ends, d \in Ends :
          (c < d /\ eCall[c].key = eCall[d].key
           /\ eCall[c].dreamed /\ eCall[d].dreamed)
            => Cardinality(SavedBetween(eCall[c].key, c, d))
                 >= dreamAfterConversations)

\* C25 as claimed: an invocation saves the messages from the stored
\* lastSavedIndex on; of two invocations of a session whose message list
\* only grew, the later one saves no index the earlier one saved; the stored
\* lastSavedIndex never decreases; and the first invocation of a session
\* saves at most the last 10 messages.
C25_OnlyNewMessagesSaved ==
  /\ [](\A c \in Ends, d \in Ends :
          (/\ c < d
           /\ eCall[c].key = eCall[d].key
           /\ eCall[c].len <= eCall[d].len
           /\ ~IsNone(eCall[c].savedFrom)
           /\ ~IsNone(eCall[d].savedFrom))
            => eCall[c].len <= Get(eCall[d].savedFrom))
  /\ [][\A s \in EndSessions :
          (~IsNone(sessionMetadata[s]) /\ ~IsNone(sessionMetadata'[s]))
            => Get(sessionMetadata'[s]).lastSavedIndex
                 >= Get(sessionMetadata[s]).lastSavedIndex]_vars
  /\ [](\A c \in Ends :
          (eCall[c].fresh /\ ~IsNone(eCall[c].savedFrom))
            => eCall[c].len - Get(eCall[c].savedFrom) <= FirstSaveWindow)

------------------------------------------------------------------------------
\* ensureInitialized (index.ts) on its own: calls from the hooks and tools,
\* the initialization attempts they start or share, and the client calls an
\* attempt makes (setMetadata, then the owner and the openclaw peer).

\* the ensureInitialized calls of a run
MaxInitCalls == 3

InitCalls == 1..MaxInitCalls

\* a call that has not been made
IdleInitCall == [pc |-> "idle", attempt |-> 0, failedBefore |-> 0]

\* an attempt: the client call it is awaiting and how it ended
Attempt(step, outcome) == [step |-> step, outcome |-> outcome]

FailedAttempts == {a \in 1..Len(initAttempts) : initAttempts[a].outcome = "failed"}

InitInit ==
  /\ iCall = [k \in InitCalls |-> IdleInitCall]
  /\ initAttempts = <<>>
  /\ honchoCalls = [setMetadata |-> 0, peer |-> 0]
  /\ useThreeLayer = FALSE
  /\ hNow = 0
  /\ initialized = FALSE
  /\ initFailed = FALSE
  /\ initPromise = "null"
  /\ currentSessionKey = "default"
  /\ identityCache = None
  /\ hCall = <<>>
  /\ FilterIdle
  /\ LoadIdle
  /\ ScanIdle
  /\ SendIdle
  /\ EndIdle
  /\ ToolIdle

\* (a variant: a promise in flight is not returned to further callers)
Coalesces_Never(promise) == FALSE

\* if (initPromise) return initPromise
Coalesces(promise) == promise # "null"

\* ensureInitialized is called: it returns at once when initialized, returns
\* the promise in flight when there is one, and otherwise starts an attempt,
\* which runs up to its first await (setMetadata is called)
EnsureInitialized(k) ==
  /\ iCall[k].pc = "idle"
  /\ IF k = 1 THEN TRUE ELSE iCall[k - 1].pc # "idle"
  /\ LET failedBefore == Cardinality(FailedAttempts)
     IN  IF initialized
           THEN /\ iCall' = [iCall EXCEPT ![k] = [pc |-> "resolved", attempt |-> 0,
                                                  failedBefore |-> failedBefore]]
                /\ UNCHANGED <<initAttempts, honchoCalls, initPromise>>
           ELSE IF Coalesces(initPromise)
                  THEN /\ iCall' = [iCall EXCEPT
                                      ![k] = [pc |-> "waiting",
                                              attempt |-> Len(initAttempts),
                                              failedBefore |-> failedBefore]]
                       /\ UNCHANGED <<initAttempts, honchoCalls, initPromise>>
                  ELSE /\ initAttempts' =
                            Append(initAttempts, Attempt("setMetadata", "pending"))
                       /\ honchoCalls' = [honchoCalls EXCEPT !.setMetadata = @ + 1]
                       /\ initPromise' = "pending"
                       /\ iCall' = [iCall EXCEPT
                                      ![k] = [pc |-> "waiting",
                                              attempt |-> Len(initAttempts) + 1,
                                              failedBefore |-> failedBefore]]
  /\ UNCHANGED <<useThreeLayer, hNow, initialized, initFailed,
                 currentSessionKey, identityCache, hCall>>
  /\ UNCHANGED <<filterVars, loadVars, scanVars, sendVars, endVars, toolVars>>

InitCalled == \E k \in InitCalls : EnsureInitialized(k)

\* the client call an attempt awaits resolves: the next one is made, or the
\* attempt has succeeded
AttemptProceeds ==
  \E a \in 1..Len(initAttempts) :
    /\ initAttempts[a].outcome = "pending"
    /\ IF initAttempts[a].step = "setMetadata"
         THEN /\ initAttempts' = [initAttempts EXCEPT ![a].step = "ownerPeer"]
              /\ honchoCalls' = [honchoCalls EXCEPT !.peer = @ + 1]
              /\ UNCHANGED <<initialized, initFailed, initPromise>>
         ELSE IF initAttempts[a].step = "ownerPeer"
                THEN /\ initAttempts' = [initAttempts EXCEPT ![a].step = "openclawPeer"]
                     /\ honchoCalls' = [honchoCalls EXCEPT !.peer = @ + 1]
                     /\ UNCHANGED <<initialized, initFailed, initPromise>>
                ELSE /\ initAttempts' = [initAttempts EXCEPT ![a].outcome = "ok"]
                     /\ initialized' = TRUE
                     /\ initFailed' = FALSE
                     /\ initPromise' = "resolved"
                     /\ UNCHANGED honchoCalls
    /\ UNCHANGED <<iCall, useThreeLayer, hNow, currentSessionKey, identityCache, hCall>>
    /\ UNCHANGED <<filterVars, loadVars, scanVars, sendVars, endVars, toolVars>>

\* the client call an attempt awaits rejects: the attempt fails and clears
\* initPromise to allow a retry
AttemptFails ==
  \E a \in 1..Len(initAttempts) :
    /\ initAttempts[a].outcome = "pending"
    /\ initAttempts' = [initAttempts EXCEPT ![a].outcome = "failed"]
    /\ initFailed' = TRUE
    /\ initPromise' = "null"
    /\ UNCHANGED <<iCall, honchoCalls, useThreeLayer, hNow, initialized,
                   currentSessionKey, identityCache, hCall>>
    /\ UNCHANGED <<filterVars, loadVars, scanVars, sendVars, endVars, toolVars>>

\* a caller's await settles with the outcome of the promise it was given
CallerResumes ==
  \E k \in InitCalls :
    /\ iCall[k].pc = "waiting"
    /\ initAttempts[iCall[k].attempt].outcome # "pending"
    /\ iCall' = [iCall EXCEPT
                   ![k].pc = IF initAttempts[iCall[k].attempt].outcome = "ok"
                               THEN "resolved" ELSE "rejected"]
    /\ UNCHANGED <<initAttempts, honchoCalls, hookVars>>
    /\ UNCHANGED <<filterVars, loadVars, scanVars, sendVars, endVars, toolVars>>

NextInit == InitCalled \/ AttemptProceeds \/ AttemptFails \/ CallerResumes

SpecInit == InitInit /\ [][NextInit]_vars

\* C21: at most one attempt is in flight and every attempt calls setMetadata
\* once and creates at most the two peers; an attempt that succeeded is the
\* last one; every call made while an attempt is in flight is given that
\* attempt, every call made after the attempts so far have failed is given
\* a fresh one (its attempt is the one after the failed ones); a call
\* settles as its attempt did: resolved on success, rejected on failure.
C21_CoalescesAndRetries ==
  /\ Cardinality({a \in 1..Len(initAttempts) : initAttempts[a].outcome = "pending"}) <= 1
  /\ honchoCalls.setMetadata = Len(initAttempts)
  /\ honchoCalls.peer <= 2 * Len(initAttempts)
  /\ \A a \in 1..Len(initAttempts) :
       initAttempts[a].outcome = "ok" => a = Len(initAttempts)
  /\ \A k \in InitCalls :
       iCall[k].pc # "idle" =>
         /\ iCall[k].attempt = 0 =>
              /\ iCall[k].pc = "resolved"
              /\ initialized
         /\ iCall[k].attempt > 0 =>
              /\ iCall[k].attempt = iCall[k].failedBefore + 1
              /\ iCall[k].pc = "resolved"
                   => initAttempts[iCall[k].attempt].outcome = "ok"
              /\ iCall[k].pc = "rejected"
                   => initAttempts[iCall[k].attempt].outcome = "failed"

\* two calls shared an attempt that failed and both saw the failure; the
\* next call started a fresh attempt, which succeeded
C21_SharedFailureThenRetry ==
  /\ MaxInitCalls >= 3
  /\ iCall[1].attempt = 1 /\ iCall[1].pc = "rejected"
  /\ iCall[2].attempt = 1 /\ iCall[2].pc = "rejected"
  /\ iCall[3].attempt = 2 /\ iCall[3].pc = "resolved"
  /\ honchoCalls.setMetadata = 2

------------------------------------------------------------------------------
\* Agent runs and the memory tools (index.ts): before_agent_start tracks the
\* session key and injects the prompt; the agent then calls honcho_session,
\* honcho_search or honcho_context. Runs of different sessions interleave.

\* the agent runs of a behaviour
MaxRuns == 2

Runs == 1..MaxRuns

\* the session keys buildSessionKey yields for the contexts of the runs
RunKeys == {"agent-a", "agent-b"}

Tools == {"honcho_session", "honcho_search", "honcho_context"}

\* the default safety patterns, here one case-insensitive pattern
DEFAULT_SAFETY_PATTERNS == <<RegExp(<<"s">>, {"i"})>>

\* what the memory service answers with for a summary or a representation:
\* nothing, a text with a line the patterns match, a text they match whole
ServiceTexts == {None, Some(<<"x", "\n", "s">>), Some(<<"s">>)}

\* a run that has not started
IdleRun == [pc |-> "idle", key |-> "", tool |-> "", sessionKey |-> None]

\* a memory text on its way to the agent: where it goes, what the service
\* sent and what the agent is given (null: left out)
Delivery(channel, kind, raw, text) ==
  [channel |-> channel, kind |-> kind, raw |-> raw, text |-> text]

\* if (content) ... : null and "" are left out
Truthy(text) == IF ~IsNone(text) /\ Get(text) # <<>> THEN text ELSE None

\* a text that goes through the safety filter when it is enabled:
\* if (x) { if (cfg.enableSafetyFilter) x = stripInternalContext(x, ...) ?? "";
\*          if (x) push }
FilteredWhenEnabled(raw) ==
  IF IsNone(Truthy(raw)) THEN None
  ELSE IF enableSafetyFilter
         THEN Truthy(stripInternalContext(Get(raw), DEFAULT_SAFETY_PATTERNS).value)
         ELSE raw

\* a text that is pushed as the service sent it: if (x) push
Unfiltered(raw) == Truthy(raw)

\* the representation as loadIdentityContext returns it under the
\* identityConfig of the hook
ThreeLayerRepresentation(raw) ==
  Truthy(IdentityContext(
           [TimeoutDefault EXCEPT !.representation = raw],
           [HookConfig EXCEPT
              !.safetyPatterns = IF enableSafetyFilter
                                   THEN Some(DEFAULT_SAFETY_PATTERNS)
                                   ELSE None]).representation)

\* the memory texts of the prompt before_agent_start injects
PromptDeliveries(threeLayer, summary, representation) ==
  IF threeLayer
    THEN <<Delivery("prompt", "representation", representation,
                    ThreeLayerRepresentation(representation)),
           Delivery("prompt", "summary", summary, FilteredWhenEnabled(summary))>>
    ELSE <<Delivery("flat prompt", "representation", representation,
                    FilteredWhenEnabled(representation)),
           Delivery("flat prompt", "summary", summary,
                    FilteredWhenEnabled(summary))>>

\* the memory texts of a tool result
ToolDeliveries(tool, summary, representation) ==
  IF tool = "honcho_session"
    THEN <<Delivery(tool, "summary", summary, Unfiltered(summary)),
           Delivery(tool, "representation", representation,
                    Unfiltered(representation))>>
    ELSE <<Delivery(tool, "representation", representation,
                    FilteredWhenEnabled(representation))>>

InitTool ==
  /\ enableSafetyFilter \in BOOLEAN
  /\ tRun = [i \in Runs |-> IdleRun]
  /\ tDelivered = <<>>
  /\ useThreeLayer \in BOOLEAN
  /\ hNow = 0
  /\ initialized = TRUE
  /\ initFailed = FALSE
  /\ initPromise = "resolved"
  /\ currentSessionKey = "default"
  /\ identityCache = None
  /\ hCall = <<>>
  /\ FilterIdle
  /\ LoadIdle
  /\ ScanIdle
  /\ SendIdle
  /\ EndIdle
  /\ InitIdle

\* before_agent_start of a run: the session key of its context is tracked in
\* currentSessionKey. Runs are numbered in the order they start.
RunStarts ==
  \E i \in Runs, key \in RunKeys :
    /\ tRun[i].pc = "idle"
    /\ IF i = 1 THEN TRUE ELSE tRun[i - 1].pc # "idle"
    /\ currentSessionKey' = key
    /\ tRun' = [tRun EXCEPT ![i].pc = "hook", ![i].key = key]
    /\ UNCHANGED <<enableSafetyFilter, tDelivered>>
    /\ UNCHANGED <<useThreeLayer, hNow, initialized, initFailed, initPromise,
                   identityCache, hCall>>
    /\ UNCHANGED <<filterVars, loadVars, scanVars, sendVars, endVars, initVars>>

\* the hook's fetches resolve and it returns the prompt
PromptInjected ==
  \E i \in Runs, summary \in ServiceTexts, representation \in ServiceTexts :
    /\ tRun[i].pc = "hook"
    /\ tRun' = [tRun EXCEPT ![i].pc = "agent"]
    /\ tDelivered' = PromptDeliveries(useThreeLayer, summary, representation)
    /\ UNCHANGED <<enableSafetyFilter, hookVars>>
    /\ UNCHANGED <<filterVars, loadVars, scanVars, sendVars, endVars, initVars>>

\* the agent calls a tool: execute runs up to await ensureInitialized()
ToolCalled ==
  \E i \in Runs, tool \in Tools :
    /\ tRun[i].pc = "agent"
    /\ tRun' = [tRun EXCEPT ![i].pc = "awaitInit", ![i].tool = tool]
    /\ UNCHANGED <<enableSafetyFilter, tDelivered, hookVars>>
    /\ UNCHANGED <<filterVars, loadVars, scanVars, sendVars, endVars, initVars>>

\* ensureInitialized has resolved: honcho_session reads currentSessionKey;
\* the tool issues its request
ToolInitAwaited ==
  \E i \in Runs :
    /\ tRun[i].pc = "awaitInit"
    /\ tRun' = [tRun EXCEPT
                  ![i].pc = "awaitFetch",
                  ![i].sessionKey = IF tRun[i].tool = "honcho_session"
                                      THEN Some(currentSessionKey) ELSE None]
    /\ UNCHANGED <<enableSafetyFilter, tDelivered, hookVars>>
    /\ UNCHANGED <<filterVars, loadVars, scanVars, sendVars, endVars, initVars>>

\* the request resolves and the tool returns its result
ToolReturns ==
  \E i \in Runs, summary \in ServiceTexts, representation \in ServiceTexts :
    /\ tRun[i].pc = "awaitFetch"
    /\ tRun[i].tool # "honcho_session" => summary = None
    /\ tRun' = [tRun EXCEPT ![i].pc = "done"]
    /\ tDelivered' = ToolDeliveries(tRun[i].tool, summary, representation)
    /\ UNCHANGED <<enableSafetyFilter, hookVars>>
    /\ UNCHANGED <<filterVars, loadVars, scanVars, sendVars, endVars, initVars>>

NextTool ==
  \/ RunStarts
  \/ PromptInjected
  \/ ToolCalled
  \/ ToolInitAwaited
  \/ ToolReturns

SpecTool == InitTool /\ [][NextTool]_vars

\* C23 as claimed: the session key honcho_session uses is the key built from
\* the context of the run that calls it, whatever other runs do meanwhile.
C23_ToolUsesOwnSessionKey ==
  \A i \in Runs :
    ~IsNone(tRun[i].sessionKey) => Get(tRun[i].sessionKey) = tRun[i].key

\* what the safety filter leaves of a text of the memory service
SafetyFiltered(raw) ==
  IF IsNone(raw) \/ Get(raw) = <<>> THEN None
  ELSE LET kept == stripInternalContext(Get(raw), DEFAULT_SAFETY_PATTERNS).value
       IN  IF IsNone(kept) \/ Get(kept) = <<>> THEN None ELSE kept

\* C26 as claimed: with enableSafetyFilter on, every representation or
\* summary text the agent is given, in the prompt or in a tool result, is
\* what stripInternalContext with the default safety patterns left of the
\* text the service sent.
C26_NothingUnfilteredReachesAgent ==
  enableSafetyFilter =>
    \A n \in 1..Len(tDelivered) :
      tDelivered[n].text = SafetyFiltered(tDelivered[n].raw)
====
